---------------------------- MODULE Spec2Model ----------------------------
(***************************************************************************)
(* A model of the Domino4 game server (server.js): the four player slots   *)
(* (jugadores), the shared gameState object and the socket.io handlers     *)
(* that mutate them.  Every handler is one atomic action, as Node runs     *)
(* each event callback to completion.                                      *)
(***************************************************************************)
EXTENDS Integers, Sequences, FiniteSets, TLC

(***************************************************************************)
(* Bounds of the model.                                                    *)
(***************************************************************************)
\* socket.io connections ever opened (socket ids are 1..MaxSockets)
MaxSockets == 5
\* a client submits one of the first MaxPick tiles of its hand
MaxPick == 2
\* initial states of the random number generator
NumSeeds == 2
\* executions of initializeRound in one run
MaxRounds == 3
\* restartGame commands accepted in one run
MaxRestarts == 1
\* client-initiated disconnects in one run
MaxDisconnects == 1
\* setPlayerName commands accepted from a socket that already has a seat
MaxRebinds == 1
\* client-initiated disconnects in a run in which a restart is requested
MaxLeavers == 3
\* seeds of the generator from which a round is dealt on its own
NumShuffles == 120
\* seeds from which the first round of a table of four that stays is dealt
NumDeals == 12
\* ways of choosing the tile to place at such a table
MaxChoice == 3
\* rounds dealt at such a table
MaxLiveRounds == 2

(***************************************************************************)
(* Program constants.                                                      *)
(***************************************************************************)
POINTS_TO_WIN_MATCH == 50
MaxPip == 6
HandSize == 7
NameMaxLen == 12
NumSeats == 4
NumPairings == 3
null == -1
Everyone == 0
Blank == 0

\* JavaScript null for a tile and for a display name
NoTile == <<>>
NoName == <<>>
Seats == 1..NumSeats
\* "Jugador 1" .. "Jugador 4"
playerNames == [i \in 1..NumSeats |-> i]
Sockets == 1..MaxSockets

\* a tile is <<left, right>>
Left(t) == t[1]
Right(t) == t[2]
\* fault: the tile is laid as it is held
Flip_Same(t) == t

Flip(t) == <<t[2], t[1]>>
IsDoubleSix(t) == Left(t) = MaxPip /\ Right(t) = MaxPip

(***************************************************************************)
(* Sequence helpers (Array.prototype methods used by the server).          *)
(***************************************************************************)
RECURSIVE SumSeq(_)
SumSeq(s) == IF s = <<>> THEN 0 ELSE Head(s) + SumSeq(Tail(s))

\* array.splice(i, 1)
RemoveAt(s, i) == SubSeq(s, 1, i-1) \o SubSeq(s, i+1, Len(s))

Includes(s, x) == \E i \in 1..Len(s) : s[i] = x

(***************************************************************************)
(* setPlayerName: name.trim().substring(0, 12).  A raw name is a sequence  *)
(* of characters, Blank standing for white space.                          *)
(***************************************************************************)
RECURSIVE TrimLeft(_)
TrimLeft(s) == IF s # <<>> /\ Head(s) = Blank THEN TrimLeft(Tail(s)) ELSE s

RECURSIVE TrimRight(_)
TrimRight(s) ==
    IF s # <<>> /\ s[Len(s)] = Blank THEN TrimRight(SubSeq(s, 1, Len(s)-1)) ELSE s

Trim(s) == TrimRight(TrimLeft(s))

Substring(s, n) == SubSeq(s, 1, IF Len(s) < n THEN Len(s) ELSE n)

NormalizeName(raw) == Substring(Trim(raw), NameMaxLen)

(***************************************************************************)
(* generateDominoes, shuffleArray.                                         *)
(***************************************************************************)
RECURSIVE GenRow(_, _)
GenRow(i, j) == IF j > MaxPip THEN <<>> ELSE <<<<i, j>>>> \o GenRow(i, j+1)

RECURSIVE GenFrom(_)
GenFrom(i) == IF i > MaxPip THEN <<>> ELSE GenRow(i, i) \o GenFrom(i+1)

generateDominoes == GenFrom(0)

\* fault: a[j] is copied to a[i] and a[i] is lost
Swap_Overwrite(a, i, j) == [a EXCEPT ![i] = a[j]]

Swap(a, i, j) == [a EXCEPT ![i] = a[j], ![j] = a[i]]

\* The Fisher-Yates loop from (0-based) index i down to 1; draws[k] is the
\* k-th value of Math.floor(Math.random() * (i + 1)).
RECURSIVE ShuffleFrom(_, _, _, _)
ShuffleFrom(a, i, draws, k) ==
    IF i <= 0 THEN a
    ELSE ShuffleFrom(Swap(a, i + 1, draws[k] + 1), i - 1, draws, k + 1)

shuffleArray(a, draws) == ShuffleFrom(a, Len(a) - 1, draws, 1)

calculateHandValue(hand) == SumSeq([i \in 1..Len(hand) |-> Left(hand[i]) + Right(hand[i])])


(***************************************************************************)
(* Math.random: the generator's state rng decides the draws of one         *)
(* shuffle; DrawTable lists the draw sequences the model lets it yield.    *)
(***************************************************************************)
DrawTable ==
  <<
    <<6,4,21,12,2,8,17,11,5,9,8,1,3,14,7,2,5,7,3,1,6,5,1,2,0,0,1>>,
    <<23,19,13,19,22,4,21,13,7,7,17,12,5,6,8,5,2,3,8,0,4,2,4,2,2,2,1>>,
    <<11,26,20,9,1,14,0,19,14,14,1,2,2,12,3,4,3,8,0,8,6,4,4,0,1,2,0>>,
    <<19,17,12,10,3,4,15,10,11,15,13,2,10,6,6,4,3,0,8,6,2,4,2,3,3,0,1>>,
    <<11,5,20,10,3,14,6,12,19,10,8,2,15,4,9,6,10,9,6,8,6,1,0,0,1,1,1>>,
    <<13,8,14,10,2,13,16,14,3,2,5,4,6,4,1,3,1,6,1,8,4,4,1,0,0,0,1>>
  >>

RandomDraws(r) == DrawTable[((r - 1) % Len(DrawTable)) + 1]

NextRng(r) == r + 2

(***************************************************************************)
(* State.                                                                  *)
(***************************************************************************)
VARIABLES
    jugadores,    \* the four player slots
    gameState,    \* the gameState object
    jugadorName,  \* socket.jugadorName of every socket
    nsock,        \* sockets opened so far: ids 1..nsock
    closed,       \* sockets that have disconnected
    timers,       \* pending setTimeout callbacks of restartGame
    rng,          \* state of Math.random
    rounds,       \* initializeRound executions so far
    restarts,     \* restartGame commands so far
    disconnects,  \* client disconnects so far
    rebinds,      \* accepted setPlayerName commands of seated sockets so far
    env,          \* what the clients of this run may do (see Profiles)
    crashed,      \* an uncaught exception ended the process
    cmd,          \* the event the last handler served, and its socket
    out           \* what the last handler emitted, in order

vars == <<jugadores, gameState, jugadorName, nsock, closed, timers, rng,
          rounds, restarts, disconnects, rebinds, env, crashed, cmd, out>>

createJugadores ==
    [p \in Seats |-> [assignedName |-> NoName, socketId |-> null, isConnected |-> FALSE]]

\* hands is an object keyed by seat: handKeys are the keys it has, and
\* hands[p] is meaningful for p in handKeys only.
createNewGameState ==
    [ board |-> <<>>,
      currentTurn |-> null,
      gameInitialized |-> FALSE,
      leftEnd |-> null,
      rightEnd |-> null,
      teamScores |-> [teamA |-> 0, teamB |-> 0],
      isFirstMove |-> TRUE,
      teams |-> [teamA |-> <<>>, teamB |-> <<>>],
      hands |-> [p \in Seats |-> <<>>],
      handKeys |-> {},
      spinnerTile |-> NoTile,
      lastWinner |-> null,
      isFirstRoundOfMatch |-> TRUE,
      readyPlayers |-> {},
      endRoundMessage |-> "",
      matchNumber |-> 1,
      playerStats |-> [p \in Seats |-> 0],
      lastPlayedTile |-> NoTile,
      matchOver |-> FALSE,
      seating |-> <<>> ]

(***************************************************************************)
(* Emitted events.  to is a socket id, or Everyone for io.emit; but is the *)
(* socket a socket.broadcast.emit leaves out.                              *)
(***************************************************************************)
Ev(ev, to) ==
    [ev |-> ev, to |-> to, but |-> null, seat |-> null, pts |-> 0, hand |-> <<>>, msg |-> ""]

HandMsg(to, hand) == [Ev("playerHand", to) EXCEPT !.hand = hand]

ErrMsg(to, msg) == [Ev("gameError", to) EXCEPT !.msg = msg]

broadcastGameState == <<Ev("gameState", Everyone)>>

ConnectedSeats(jug) == SelectSeq(playerNames, LAMBDA p : jug[p].isConnected)

Rank(seq, p) == CHOOSE k \in 1..Len(seq) : seq[k] = p

HasHand(gs, p) == p \in gs.handKeys

HoldsDoubleSix(gs, p) ==
    HasHand(gs, p) /\ \E i \in 1..Len(gs.hands[p]) : IsDoubleSix(gs.hands[p][i])

\* gameState.jugadoresInfo as broadcastGameState computes it
jugadoresInfo(gs, jug) ==
    [p \in Seats |->
        [ name |-> playerNames[p],
          displayName |-> IF jug[p].assignedName # NoName
                          THEN jug[p].assignedName ELSE <<playerNames[p]>>,
          isConnected |-> jug[p].isConnected,
          tileCount |-> IF HasHand(gs, p) THEN Len(gs.hands[p]) ELSE 0 ]]

\* fault: the snapshot carries the hands
stateSnapshot_WithHands(gs, jug) ==
    [ jugadoresInfo |-> jugadoresInfo(gs, jug),
      board |-> gs.board,
      currentTurn |-> gs.currentTurn,
      gameInitialized |-> gs.gameInitialized,
      leftEnd |-> gs.leftEnd,
      rightEnd |-> gs.rightEnd,
      teamScores |-> gs.teamScores,
      isFirstMove |-> gs.isFirstMove,
      teams |-> gs.teams,
      hands |-> gs.hands,
      spinnerTile |-> gs.spinnerTile,
      lastWinner |-> gs.lastWinner,
      isFirstRoundOfMatch |-> gs.isFirstRoundOfMatch,
      readyPlayers |-> gs.readyPlayers,
      endRoundMessage |-> gs.endRoundMessage,
      matchNumber |-> gs.matchNumber,
      playerStats |-> gs.playerStats,
      lastPlayedTile |-> gs.lastPlayedTile,
      matchOver |-> gs.matchOver,
      seating |-> gs.seating ]

\* finalState, the payload of the gameState event: gameState without hands
stateSnapshot(gs, jug) ==
    [ jugadoresInfo |-> jugadoresInfo(gs, jug),
      board |-> gs.board,
      currentTurn |-> gs.currentTurn,
      gameInitialized |-> gs.gameInitialized,
      leftEnd |-> gs.leftEnd,
      rightEnd |-> gs.rightEnd,
      teamScores |-> gs.teamScores,
      isFirstMove |-> gs.isFirstMove,
      teams |-> gs.teams,
      spinnerTile |-> gs.spinnerTile,
      lastWinner |-> gs.lastWinner,
      isFirstRoundOfMatch |-> gs.isFirstRoundOfMatch,
      readyPlayers |-> gs.readyPlayers,
      endRoundMessage |-> gs.endRoundMessage,
      matchNumber |-> gs.matchNumber,
      playerStats |-> gs.playerStats,
      lastPlayedTile |-> gs.lastPlayedTile,
      matchOver |-> gs.matchOver,
      seating |-> gs.seating ]

(***************************************************************************)
(* dealHands: every connected player, in slot order, takes the next        *)
(* HandSize tiles of the shuffled pool and is sent them.                   *)
(***************************************************************************)
dealHands(gs, jug, draws) ==
    LET dominoesPool == shuffleArray(generateDominoes, draws)
        connectedPlayers == ConnectedSeats(jug)
        handOf(k) == SubSeq(dominoesPool, HandSize * (k - 1) + 1, HandSize * k)
        notified == SelectSeq(connectedPlayers, LAMBDA p : jug[p].socketId # null)
    IN  [ gs |-> [gs EXCEPT
                    !.hands = [p \in Seats |->
                                 IF jug[p].isConnected
                                 THEN handOf(Rank(connectedPlayers, p))
                                 ELSE @[p]],
                    !.handKeys = @ \cup {p \in Seats : jug[p].isConnected}],
          out |-> [k \in 1..Len(notified) |->
                     HandMsg(jug[notified[k]].socketId,
                             handOf(Rank(connectedPlayers, notified[k])))] ]

(***************************************************************************)
(* hasValidMove, nextTurn.                                                 *)
(***************************************************************************)
\* fault: only the right face of a tile is compared with the end
Touches_RightFaceOnly(t, end) == Right(t) = end

Touches(t, end) == Left(t) = end \/ Right(t) = end

hasValidMove(gs, playerName) ==
    IF ~HasHand(gs, playerName) THEN FALSE
    ELSE IF gs.isFirstMove
         THEN IF gs.isFirstRoundOfMatch THEN HoldsDoubleSix(gs, playerName) ELSE TRUE
         ELSE \E i \in 1..Len(gs.hands[playerName]) :
                  \/ Touches(gs.hands[playerName][i], gs.leftEnd)
                  \/ Touches(gs.hands[playerName][i], gs.rightEnd)

nextTurn(gs) ==
    IF gs.currentTurn = null \/ gs.seating = <<>> THEN gs
    ELSE IF ~Includes(gs.seating, gs.currentTurn) THEN gs
    ELSE LET currentIndex == Rank(gs.seating, gs.currentTurn) - 1
             nextIndex == (currentIndex + 1) % NumSeats
         IN  [gs EXCEPT !.currentTurn = gs.seating[nextIndex + 1]]

(***************************************************************************)
(* initializeRound.                                                        *)
(***************************************************************************)
\* fault: in the second pairing "Jugador 3" is on both teams
Pairing_SharedSeat(matchNumber) ==
    LET rotation == (matchNumber - 1) % NumPairings
    IN  IF rotation = 0
        THEN [teamA |-> <<playerNames[1], playerNames[2]>>,
              teamB |-> <<playerNames[3], playerNames[4]>>]
        ELSE IF rotation = 1
        THEN [teamA |-> <<playerNames[1], playerNames[3]>>,
              teamB |-> <<playerNames[3], playerNames[4]>>]
        ELSE [teamA |-> <<playerNames[1], playerNames[4]>>,
              teamB |-> <<playerNames[2], playerNames[3]>>]

Pairing(matchNumber) ==
    LET rotation == (matchNumber - 1) % NumPairings
    IN  IF rotation = 0
        THEN [teamA |-> <<playerNames[1], playerNames[2]>>,
              teamB |-> <<playerNames[3], playerNames[4]>>]
        ELSE IF rotation = 1
        THEN [teamA |-> <<playerNames[1], playerNames[3]>>,
              teamB |-> <<playerNames[2], playerNames[4]>>]
        ELSE [teamA |-> <<playerNames[1], playerNames[4]>>,
              teamB |-> <<playerNames[2], playerNames[3]>>]

\* fault: the seating order lists team A's seats, then team B's
SeatingOf_TeamByTeam(teams) == <<teams.teamA[1], teams.teamA[2], teams.teamB[1], teams.teamB[2]>>

SeatingOf(teams) == <<teams.teamA[1], teams.teamB[1], teams.teamA[2], teams.teamB[2]>>

StartingPlayer(gs, jug) ==
    LET connectedPlayerNames == ConnectedSeats(jug)
        holders == SelectSeq(connectedPlayerNames, LAMBDA p : HoldsDoubleSix(gs, p))
    IN  IF gs.isFirstRoundOfMatch
        THEN IF holders # <<>> THEN holders[1] ELSE playerNames[1]
        ELSE IF gs.lastWinner # null /\ Includes(connectedPlayerNames, gs.lastWinner)
             THEN gs.lastWinner
             ELSE gs.seating[1]

initializeRound(gs, jug, draws) ==
    LET teams == Pairing(gs.matchNumber)
        g1 == [gs EXCEPT !.gameInitialized = TRUE,
                         !.isFirstMove = TRUE,
                         !.board = <<>>,
                         !.leftEnd = null,
                         !.rightEnd = null,
                         !.spinnerTile = NoTile,
                         !.endRoundMessage = "",
                         !.lastPlayedTile = NoTile,
                         !.matchOver = FALSE,
                         !.teams = teams,
                         !.seating = SeatingOf(teams)]
        d == dealHands(g1, jug, draws)
    IN  [ gs |-> [d.gs EXCEPT !.currentTurn = StartingPlayer(d.gs, jug)],
          out |-> d.out \o broadcastGameState ]

(***************************************************************************)
(* endRound, checkRoundEnd.                                                *)
(***************************************************************************)
PipsOf(gs, p) == IF HasHand(gs, p) THEN calculateHandValue(gs.hands[p]) ELSE 0

TeamPips(gs, team) == SumSeq([i \in 1..Len(team) |-> PipsOf(gs, team[i])])

\* fault: the list is not sorted, its first entry is taken
LowestPips_Unsorted(gs, seq) == seq[1]

\* the head of the list  seq.sort((a, b) => a.score - b.score)  (a stable sort)
LowestPips(gs, seq) ==
    seq[CHOOSE i \in 1..Len(seq) :
            /\ \A k \in 1..Len(seq) : PipsOf(gs, seq[i]) <= PipsOf(gs, seq[k])
            /\ \A k \in 1..(i - 1) : PipsOf(gs, seq[k]) > PipsOf(gs, seq[i])]

\* fault: the winner's team is paid the pips of its own hands
RoundWon_OwnTeamPips(gs, winner) ==
    LET winnerTeam == IF Includes(gs.teams.teamA, winner) THEN "teamA" ELSE "teamB"
        points == TeamPips(gs, gs.teams[winnerTeam])
    IN  [ gs |-> [gs EXCEPT !.lastWinner = winner,
                            !.teamScores[winnerTeam] = @ + points],
          endMessage |-> "domino",
          out |-> <<[Ev("playerWonHand", Everyone) EXCEPT !.seat = winner, !.pts = points]>> ]

\* outcome.winner: the seat whose hand emptied
RoundWon(gs, winner) ==
    LET winnerTeam == IF Includes(gs.teams.teamA, winner) THEN "teamA" ELSE "teamB"
        loserTeamKey == IF winnerTeam = "teamA" THEN "teamB" ELSE "teamA"
        points == TeamPips(gs, gs.teams[loserTeamKey])
    IN  [ gs |-> [gs EXCEPT !.lastWinner = winner,
                            !.teamScores[winnerTeam] = @ + points],
          endMessage |-> "domino",
          out |-> <<[Ev("playerWonHand", Everyone) EXCEPT !.seat = winner, !.pts = points]>> ]

\* fault: the team with the lower total is paid its own total
RoundBlocked_PaysLower(gs, jug) ==
    LET scoreA == TeamPips(gs, gs.teams.teamA)
        scoreB == TeamPips(gs, gs.teams.teamB)
        connected == ConnectedSeats(jug)
    IN  IF scoreA # scoreB
        THEN LET winningTeamKey == IF scoreA < scoreB THEN "teamA" ELSE "teamB"
                 points == IF scoreA < scoreB THEN scoreA ELSE scoreB
             IN  [ gs |-> [gs EXCEPT
                             !.teamScores[winningTeamKey] = @ + points,
                             !.lastWinner = IF connected # <<>>
                                            THEN LowestPips(gs, connected) ELSE @],
                   endMessage |-> "cerrado",
                   out |-> <<>> ]
        ELSE [ gs |-> [gs EXCEPT
                         !.lastWinner = IF connected # <<>>
                                        THEN LowestPips(gs, connected)
                                        ELSE playerNames[1]],
               endMessage |-> "empate",
               out |-> <<>> ]

\* fault: equal totals are not told apart, and team B is paid
RoundBlocked_TieToTeamB(gs, jug) ==
    LET scoreA == TeamPips(gs, gs.teams.teamA)
        scoreB == TeamPips(gs, gs.teams.teamB)
        connected == ConnectedSeats(jug)
        winningTeamKey == IF scoreA < scoreB THEN "teamA" ELSE "teamB"
        points == IF scoreA < scoreB THEN scoreB ELSE scoreA
    IN  [ gs |-> [gs EXCEPT
                    !.teamScores[winningTeamKey] = @ + points,
                    !.lastWinner = IF connected # <<>>
                                   THEN LowestPips(gs, connected) ELSE @],
          endMessage |-> "cerrado",
          out |-> <<>> ]

\* outcome.blocked
RoundBlocked(gs, jug) ==
    LET scoreA == TeamPips(gs, gs.teams.teamA)
        scoreB == TeamPips(gs, gs.teams.teamB)
        connected == ConnectedSeats(jug)
    IN  IF scoreA # scoreB
        THEN LET winningTeamKey == IF scoreA < scoreB THEN "teamA" ELSE "teamB"
                 points == IF scoreA < scoreB THEN scoreB ELSE scoreA
             IN  [ gs |-> [gs EXCEPT
                             !.teamScores[winningTeamKey] = @ + points,
                             !.lastWinner = IF connected # <<>>
                                            THEN LowestPips(gs, connected) ELSE @],
                   endMessage |-> "cerrado",
                   out |-> <<>> ]
        ELSE [ gs |-> [gs EXCEPT
                         !.lastWinner = IF connected # <<>>
                                        THEN LowestPips(gs, connected)
                                        ELSE playerNames[1]],
               endMessage |-> "empate",
               out |-> <<>> ]

\* winningTeamKey: the team credited with the match
MatchWinner(scoreA, scoreB) == IF scoreA > scoreB THEN "teamA" ELSE "teamB"

endRound(gs, jug, winner) ==
    LET r == IF winner # null THEN RoundWon(gs, winner) ELSE RoundBlocked(gs, jug)
        g == r.gs
        scoreA == g.teamScores.teamA
        scoreB == g.teamScores.teamB
    IN  IF scoreA >= POINTS_TO_WIN_MATCH \/ scoreB >= POINTS_TO_WIN_MATCH
        THEN LET winningTeamKey == MatchWinner(scoreA, scoreB)
                 team == g.teams[winningTeamKey]
             IN  [ gs |-> [g EXCEPT
                             !.playerStats = [p \in Seats |->
                                                IF Includes(team, p) THEN @[p] + 1 ELSE @[p]],
                             !.matchOver = TRUE,
                             !.endRoundMessage = r.endMessage,
                             !.gameInitialized = FALSE,
                             !.readyPlayers = {}],
                   out |-> r.out \o broadcastGameState ]
        ELSE [ gs |-> [g EXCEPT
                         !.isFirstRoundOfMatch = FALSE,
                         !.matchOver = FALSE,
                         !.gameInitialized = FALSE,
                         !.endRoundMessage = r.endMessage,
                         !.readyPlayers = {}],
               out |-> r.out \o broadcastGameState ]

\* fault: a round nobody can move in is not ended
checkRoundEnd_NoBlock(gs, jug) ==
    IF ~gs.gameInitialized THEN [gs |-> gs, out |-> <<>>]
    ELSE LET connectedPlayers == ConnectedSeats(jug)
             emptied == SelectSeq(connectedPlayers,
                                  LAMBDA p : HasHand(gs, p) /\ Len(gs.hands[p]) = 0)
         IN  IF emptied # <<>> THEN endRound(gs, jug, emptied[1])
             ELSE [gs |-> gs, out |-> broadcastGameState]

\* fault: the round is blocked as soon as the seat now in turn cannot move
checkRoundEnd_SeatInTurn(gs, jug) ==
    IF ~gs.gameInitialized THEN [gs |-> gs, out |-> <<>>]
    ELSE LET connectedPlayers == ConnectedSeats(jug)
             emptied == SelectSeq(connectedPlayers,
                                  LAMBDA p : HasHand(gs, p) /\ Len(gs.hands[p]) = 0)
         IN  IF emptied # <<>> THEN endRound(gs, jug, emptied[1])
             ELSE IF ~hasValidMove(gs, gs.currentTurn) THEN endRound(gs, jug, null)
             ELSE [gs |-> gs, out |-> broadcastGameState]

checkRoundEnd(gs, jug) ==
    IF ~gs.gameInitialized THEN [gs |-> gs, out |-> <<>>]
    ELSE LET connectedPlayers == ConnectedSeats(jug)
             emptied == SelectSeq(connectedPlayers,
                                  LAMBDA p : HasHand(gs, p) /\ Len(gs.hands[p]) = 0)
             canAnyPlayerMove == \E i \in 1..Len(connectedPlayers) :
                                     hasValidMove(gs, connectedPlayers[i])
         IN  IF emptied # <<>> THEN endRound(gs, jug, emptied[1])
             ELSE IF ~canAnyPlayerMove THEN endRound(gs, jug, null)
             ELSE [gs |-> gs, out |-> broadcastGameState]

(***************************************************************************)
(* The handlers, as functions of the state they read.  Each returns the    *)
(* new gameState (gs), what it emitted (out) and, where it applies, the    *)
(* new slots (jug), whether initializeRound ran (dealt), whether the       *)
(* handler threw (crash).                                                  *)
(***************************************************************************)
SameTile(t, tile) ==
    \/ (Left(t) = Left(tile) /\ Right(t) = Right(tile))
    \/ (Left(t) = Right(tile) /\ Right(t) = Left(tile))

\* hand.findIndex(...) + 1: 0 when the tile is not in the hand
TileIndex(hand, tile) ==
    IF \E i \in 1..Len(hand) : SameTile(hand[i], tile)
    THEN CHOOSE i \in 1..Len(hand) :
             SameTile(hand[i], tile) /\ \A k \in 1..(i - 1) : ~SameTile(hand[k], tile)
    ELSE 0

\* fault: the seat in turn is not checked
NotYourTurn_AnySeat(gs, player) == ~gs.gameInitialized

NotYourTurn(gs, player) == ~gs.gameInitialized \/ gs.currentTurn # player

\* the first tile of a round
PlaceFirst(gs, firstTile) ==
    [gs EXCEPT !.board = Append(@, firstTile),
               !.leftEnd = Left(firstTile),
               !.rightEnd = Right(firstTile),
               !.spinnerTile = firstTile,
               !.isFirstMove = FALSE]

\* fault: the tile goes on the board and leftEnd is not updated
PlaceLeft_StaleEnd(gs, oriented) ==
    [gs EXCEPT !.board = <<oriented>> \o @]

\* board.unshift(oriented)
PlaceLeft(gs, oriented) ==
    [gs EXCEPT !.board = <<oriented>> \o @, !.leftEnd = Left(oriented)]

\* board.push(oriented)
PlaceRight(gs, oriented) ==
    [gs EXCEPT !.board = Append(@, oriented), !.rightEnd = Right(oriented)]

\* the board, ends and spinner after playedTile is played; valid says whether
\* the move was one
Placement(gs, playedTile, position) ==
    IF gs.isFirstMove
    THEN [valid |-> TRUE, tile |-> playedTile, gs |-> PlaceFirst(gs, playedTile)]
    ELSE IF position = "left" /\ Touches(playedTile, gs.leftEnd)
    THEN LET oriented == IF Right(playedTile) = gs.leftEnd
                         THEN playedTile ELSE Flip(playedTile)
         IN  [valid |-> TRUE, tile |-> oriented, gs |-> PlaceLeft(gs, oriented)]
    ELSE IF position = "right" /\ Touches(playedTile, gs.rightEnd)
    THEN LET oriented == IF Left(playedTile) = gs.rightEnd
                         THEN playedTile ELSE Flip(playedTile)
         IN  [valid |-> TRUE, tile |-> oriented, gs |-> PlaceRight(gs, oriented)]
    ELSE [valid |-> FALSE, tile |-> NoTile, gs |-> gs]

\* fault: in the first round of a match any tile may open
FirstMoveMustBeDoubleSix_AnyTile(gs, tile) == FALSE

FirstMoveMustBeDoubleSix(gs, tile) ==
    gs.isFirstMove /\ gs.isFirstRoundOfMatch /\ ~IsDoubleSix(tile)

placeTile(gs, jug, s, player, tile, position) ==
    IF NotYourTurn(gs, player)
    THEN [gs |-> gs, out |-> <<>>, crash |-> FALSE]
    ELSE IF ~HasHand(gs, player)
    THEN [gs |-> gs, out |-> <<>>, crash |-> TRUE]
    ELSE
    LET hand == gs.hands[player]
        tileIndex == TileIndex(hand, tile)
    IN  IF tileIndex = 0
        THEN [gs |-> gs, out |-> <<>>, crash |-> FALSE]
        ELSE IF FirstMoveMustBeDoubleSix(gs, tile)
        THEN [gs |-> gs, out |-> <<ErrMsg(s, "First move must be 6|6!")>>, crash |-> FALSE]
        ELSE
        LET m == Placement(gs, hand[tileIndex], position)
        IN  IF ~m.valid
            THEN [gs |-> gs, out |-> <<ErrMsg(s, "Invalid move!")>>, crash |-> FALSE]
            ELSE
            LET g1 == [m.gs EXCEPT !.hands[player] = RemoveAt(hand, tileIndex),
                                   !.lastPlayedTile = m.tile]
                c == checkRoundEnd(nextTurn(g1), jug)
            IN  [ gs |-> c.gs,
                  out |-> << HandMsg(s, g1.hands[player]),
                             [Ev("moveSuccess", s) EXCEPT !.hand = <<m.tile>>],
                             [Ev("tilePlaced", Everyone) EXCEPT
                                 !.seat = player, !.hand = <<m.tile>>] >> \o c.out,
                  crash |-> FALSE ]

\* fault: a pass is accepted from the seat in turn whatever it holds
PassRefused_TurnOnly(gs, player) == NotYourTurn(gs, player)

PassRefused(gs, player) == NotYourTurn(gs, player) \/ hasValidMove(gs, player)

passTurn(gs, jug, player) ==
    IF PassRefused(gs, player)
    THEN [gs |-> gs, out |-> <<>>]
    ELSE LET c == checkRoundEnd(nextTurn(gs), jug)
         IN  [ gs |-> c.gs,
               out |-> <<[Ev("playerPassed", Everyone) EXCEPT !.seat = player]>> \o c.out ]

\* fault: the win counters are not carried into the new match
NewMatchState_ForgetsStats(gs) ==
    [createNewGameState EXCEPT !.matchNumber = gs.matchNumber + 1,
                               !.lastWinner = gs.lastWinner,
                               !.isFirstRoundOfMatch = TRUE]

\* the reset of gameState that starts a new match
NewMatchState(gs) ==
    [createNewGameState EXCEPT !.playerStats = gs.playerStats,
                               !.matchNumber = gs.matchNumber + 1,
                               !.lastWinner = gs.lastWinner,
                               !.isFirstRoundOfMatch = TRUE]

AllReady(gs, jug) ==
    /\ Cardinality(gs.readyPlayers) = Len(ConnectedSeats(jug))
    /\ Len(ConnectedSeats(jug)) = NumSeats

\* fault: every full acknowledgement starts a new match
playerReadyForNewRound_AlwaysNewMatch(gs, jug, player, draws) ==
    IF player = null
    THEN [gs |-> gs, out |-> <<>>, dealt |-> FALSE]
    ELSE LET g1 == [gs EXCEPT !.readyPlayers = @ \cup {player}]
         IN  IF AllReady(g1, jug)
             THEN LET g2 == NewMatchState(g1)
                      r == initializeRound([g2 EXCEPT !.readyPlayers = {}], jug, draws)
                  IN  [gs |-> r.gs, out |-> broadcastGameState \o r.out, dealt |-> TRUE]
             ELSE [gs |-> g1, out |-> broadcastGameState, dealt |-> FALSE]

playerReadyForNewRound(gs, jug, player, draws) ==
    IF player = null
    THEN [gs |-> gs, out |-> <<>>, dealt |-> FALSE]
    ELSE LET g1 == [gs EXCEPT !.readyPlayers = @ \cup {player}]
         IN  IF AllReady(g1, jug)
             THEN LET g2 == IF g1.matchOver THEN NewMatchState(g1) ELSE g1
                      r == initializeRound([g2 EXCEPT !.readyPlayers = {}], jug, draws)
                  IN  [gs |-> r.gs, out |-> broadcastGameState \o r.out, dealt |-> TRUE]
             ELSE [gs |-> g1, out |-> broadcastGameState, dealt |-> FALSE]

\* jugadores.find(p => p.socketId === socket.id): the first such slot, or null
SlotOf(jug, s) ==
    IF \E p \in Seats : jug[p].socketId = s
    THEN CHOOSE p \in Seats : jug[p].socketId = s /\ \A q \in 1..(p - 1) : jug[q].socketId # s
    ELSE null

\* fault: the team scores survive the restart
restartGame_KeepsScores(gs, jug, s) ==
    IF SlotOf(jug, s) = null
    THEN [gs |-> gs, out |-> <<>>, scheduled |-> FALSE]
    ELSE [ gs |-> [createNewGameState EXCEPT !.teamScores = gs.teamScores],
           out |-> <<[Ev("gameRestarted", Everyone) EXCEPT !.seat = SlotOf(jug, s)]>>
                   \o broadcastGameState,
           scheduled |-> Len(ConnectedSeats(jug)) = NumSeats ]

\* scheduled says whether the handler set the 2 second timer
restartGame(gs, jug, s) ==
    IF SlotOf(jug, s) = null
    THEN [gs |-> gs, out |-> <<>>, scheduled |-> FALSE]
    ELSE [ gs |-> createNewGameState,
           out |-> <<[Ev("gameRestarted", Everyone) EXCEPT !.seat = SlotOf(jug, s)]>>
                   \o broadcastGameState,
           scheduled |-> Len(ConnectedSeats(jug)) = NumSeats ]

chatMessage(jug, s) ==
    IF SlotOf(jug, s) # null
    THEN <<[Ev("chatMessage", Everyone) EXCEPT !.seat = SlotOf(jug, s)]>>
    ELSE <<>>

voiceMessage(s) == <<[Ev("voiceMessage", Everyone) EXCEPT !.but = s]>>

disconnect(gs, jug, s) ==
    LET playerSlot == SlotOf(jug, s)
    IN  IF playerSlot = null
        THEN [gs |-> gs, jug |-> jug, out |-> <<>>]
        ELSE LET j1 == [jug EXCEPT ![playerSlot].socketId = null,
                                   ![playerSlot].isConnected = FALSE]
                 g1 == [gs EXCEPT !.readyPlayers = @ \ {playerSlot}]
                 connectedCount == Len(ConnectedSeats(j1))
             IN  IF connectedCount < NumSeats /\ g1.gameInitialized
                 THEN [gs |-> g1, jug |-> j1, out |-> broadcastGameState]
                 ELSE IF connectedCount = 0
                 THEN [gs |-> createNewGameState, jug |-> createJugadores, out |-> <<>>]
                 ELSE [gs |-> g1, jug |-> j1, out |-> broadcastGameState]

NameInUse(jug, displayName) ==
    \E p \in Seats : /\ jug[p].isConnected
                     /\ jug[p].assignedName # NoName
                     /\ Trim(jug[p].assignedName) = displayName

\* fault: a returning player is never recognised
IsReconnecting_Never(gs, jug, p, displayName) == FALSE

IsReconnecting(gs, jug, p, displayName) ==
    /\ jug[p].assignedName # NoName
    /\ Trim(jug[p].assignedName) = displayName
    /\ ~jug[p].isConnected
    /\ gs.gameInitialized

FirstSeat(S) == CHOOSE p \in S : \A q \in S : p <= q

\* fault: the round starts whenever a fourth seat is filled between rounds
AutoStart_AnyTime(gs, jug) ==
    /\ Len(ConnectedSeats(jug)) = NumSeats
    /\ ~gs.gameInitialized

AutoStart(gs, jug) ==
    /\ Len(ConnectedSeats(jug)) = NumSeats
    /\ ~gs.gameInitialized
    /\ gs.endRoundMessage = ""
    /\ ~gs.matchOver

\* seat is the new value of socket.jugadorName; full says the server closed
\* the socket (socket.disconnect(), which runs the disconnect handler)
setPlayerName(gs, jug, s, seat, name, draws) ==
    LET displayName == NormalizeName(name)
        same == [gs |-> gs, jug |-> jug, seat |-> seat, dealt |-> FALSE, full |-> FALSE,
                 out |-> <<>>]
        reconnecting == {p \in Seats : IsReconnecting(gs, jug, p, displayName)}
        available == {p \in Seats : ~jug[p].isConnected}
    IN  IF displayName = <<>>
        THEN [same EXCEPT !.out = <<>>]
        ELSE IF NameInUse(jug, displayName)
        THEN [same EXCEPT !.out = <<ErrMsg(s, "Name is already taken.")>>]
        ELSE IF reconnecting # {}
        THEN LET p == FirstSeat(reconnecting)
                 playerHand == IF HasHand(gs, p)
                               THEN HandMsg(s, gs.hands[p])
                               ELSE Ev("playerHand", s)
             IN  [ gs |-> gs,
                   jug |-> [jug EXCEPT ![p].socketId = s, ![p].isConnected = TRUE],
                   seat |-> p, dealt |-> FALSE, full |-> FALSE,
                   out |-> <<[Ev("playerAssigned", s) EXCEPT !.seat = p], playerHand>>
                           \o broadcastGameState ]
        ELSE IF available # {}
        THEN LET p == FirstSeat(available)
                 j1 == [jug EXCEPT ![p].socketId = s,
                                   ![p].isConnected = TRUE,
                                   ![p].assignedName = displayName]
                 assigned == <<[Ev("playerAssigned", s) EXCEPT !.seat = p]>>
             IN  IF AutoStart(gs, j1)
                 THEN LET r == initializeRound(gs, j1, draws)
                      IN  [ gs |-> r.gs, jug |-> j1, seat |-> p, dealt |-> TRUE,
                            full |-> FALSE, out |-> assigned \o r.out ]
                 ELSE [ gs |-> gs, jug |-> j1, seat |-> p, dealt |-> FALSE,
                        full |-> FALSE, out |-> assigned \o broadcastGameState ]
        ELSE LET d == disconnect(gs, jug, s)
             IN  [ gs |-> d.gs, jug |-> d.jug, seat |-> seat, dealt |-> FALSE,
                   full |-> TRUE, out |-> <<ErrMsg(s, "Game is full.")>> \o d.out ]

(***************************************************************************)
(* The clients.  In every run four clients connect, play and ready up      *)
(* between rounds.  A profile says what else the clients of a run do:      *)
(*   noise    they send commands the server refuses or ignores, and chat   *)
(*            and voice messages;                                          *)
(*   early    they send playerReadyForNewRound at any time;                *)
(*   sockets  connections opened in the run;                               *)
(*   drops    disconnects in the run;                                      *)
(*   restarts restartGame commands in the run;                             *)
(*   rebinds  setPlayerName commands from sockets that have a seat;        *)
(*   rounds   rounds dealt in the run;                                     *)
(*   pick     a client submits one of the first pick tiles of its hand.    *)
(***************************************************************************)
Nominal ==
    [ noise |-> FALSE, early |-> FALSE, sockets |-> NumSeats, drops |-> 0,
      restarts |-> 0, rebinds |-> 0, rounds |-> MaxRounds, pick |-> MaxPick ]

Profiles ==
    { Nominal,
      [Nominal EXCEPT !.noise = TRUE, !.rounds = 1],
      [Nominal EXCEPT !.early = TRUE, !.rounds = 2, !.pick = 1],
      [Nominal EXCEPT !.sockets = MaxSockets, !.drops = MaxDisconnects,
                      !.rounds = 2, !.pick = 1],
      [Nominal EXCEPT !.restarts = MaxRestarts, !.drops = MaxLeavers,
                      !.pick = 1],
      [Nominal EXCEPT !.rebinds = MaxRebinds, !.rounds = 1, !.pick = 1],
      [Nominal EXCEPT !.drops = NumSeats, !.rounds = 1, !.pick = 1] }

\* the players are expected to ready up: a round or match has ended, or the
\* game was restarted
AwaitingReady ==
    /\ ~gameState.gameInitialized
    /\ gameState.endRoundMessage # "" \/ gameState.matchOver \/ restarts > 0

(***************************************************************************)
(* Inputs.  Sockets are numbered in the order they connect.  Display names *)
(* are compared for equality only.  A socket without a seat picks a name   *)
(* some slot holds (plain, or padded with white space), the first unused   *)
(* name, or a blank name; a socket with a seat picks its own name, the     *)
(* first unused name, or a blank name.  The player whose turn it is        *)
(* submits one of the first pick tiles of its hand, the first one turned   *)
(* around, or a tile it does not hold, at any position; another player     *)
(* submits its first tile.                                                 *)
(***************************************************************************)
Live == (1..nsock) \ closed

NewSocket == IF nsock < env.sockets THEN {nsock + 1} ELSE {}

AssignedNames == {jugadores[p].assignedName : p \in Seats} \ {NoName}

FreshName ==
    <<CHOOSE n \in 1..(NumSeats + 1) :
          /\ <<n>> \notin AssignedNames
          /\ \A m \in 1..(n - 1) : <<m>> \in AssignedNames>>

NameInputs(s) ==
    IF s \in Sockets /\ jugadorName[s] # null
    THEN {jugadores[jugadorName[s]].assignedName, FreshName, <<Blank>>}
    ELSE AssignedNames \cup {<<Blank>> \o n \o <<Blank>> : n \in AssignedNames}
                       \cup {FreshName, <<Blank>>}

ForeignTile(hand) ==
    generateDominoes[CHOOSE i \in 1..Len(generateDominoes) :
        /\ TileIndex(hand, generateDominoes[i]) = 0
        /\ \A k \in 1..(i - 1) : TileIndex(hand, generateDominoes[k]) # 0]

TileInputs(s) ==
    LET p == jugadorName[s]
        hand == IF p # null /\ HasHand(gameState, p) THEN gameState.hands[p] ELSE <<>>
    IN  IF hand = <<>> THEN {<<MaxPip, MaxPip>>}
        ELSE IF p # gameState.currentTurn THEN {hand[1]}
        ELSE {hand[i] : i \in 1..(IF Len(hand) < env.pick THEN Len(hand) ELSE env.pick)}
             \cup {Flip(hand[1]), ForeignTile(hand)}

Positions == {"left", "right", "center"}

MoveInputs(s) ==
    IF jugadorName[s] = gameState.currentTurn
    THEN TileInputs(s) \X Positions
    ELSE TileInputs(s) \X {"left"}

Cmd(op, s) == [op |-> op, sock |-> s]

(***************************************************************************)
(* The actions: one per socket event, and the restart timer.               *)
(***************************************************************************)
Init ==
    /\ jugadores = createJugadores
    /\ gameState = createNewGameState
    /\ jugadorName = [s \in Sockets |-> null]
    /\ nsock = 0
    /\ closed = {}
    /\ timers = 0
    /\ rng \in 1..NumSeeds
    /\ rounds = 0
    /\ restarts = 0
    /\ disconnects = 0
    /\ rebinds = 0
    /\ env \in Profiles
    /\ crashed = FALSE
    /\ cmd = Cmd("listen", null)
    /\ out = <<>>

Dealt(dealt) ==
    /\ dealt => rounds < env.rounds
    /\ rounds' = IF dealt THEN rounds + 1 ELSE rounds
    /\ rng' = IF dealt THEN NextRng(rng) ELSE rng

Identify(s, name) ==
    /\ ~crashed
    /\ LET r == setPlayerName(gameState, jugadores, s, jugadorName[s], name,
                              RandomDraws(rng))
           accepted == r.jug # jugadores /\ ~r.full
           rebind == (accepted \/ r.full) /\ jugadorName[s] # null
       IN  /\ (env.noise /\ s \in Live) \/ accepted \/ r.full
           /\ rebind => rebinds < env.rebinds
           /\ rebinds' = IF rebind THEN rebinds + 1 ELSE rebinds
           /\ Dealt(r.dealt)
           /\ gameState' = r.gs
           /\ jugadores' = r.jug
           /\ jugadorName' = [jugadorName EXCEPT ![s] = IF r.full THEN null ELSE r.seat]
           /\ closed' = IF r.full THEN closed \cup {s} ELSE closed
           /\ out' = r.out
    /\ nsock' = IF s > nsock THEN s ELSE nsock
    /\ cmd' = Cmd("setPlayerName", s)
    /\ UNCHANGED <<timers, restarts, disconnects, env, crashed>>

PlaceTile(s, tile, position) ==
    /\ ~crashed
    /\ LET r == placeTile(gameState, jugadores, s, jugadorName[s], tile, position)
       IN  /\ env.noise \/ r.gs # gameState \/ r.crash
           /\ gameState' = r.gs
           /\ crashed' = r.crash
           /\ out' = r.out
    /\ cmd' = Cmd("placeTile", s)
    /\ UNCHANGED <<jugadores, jugadorName, nsock, closed, timers, rng, rounds,
                   restarts, disconnects, rebinds, env>>

PassTurn(s) ==
    /\ ~crashed
    /\ LET r == passTurn(gameState, jugadores, jugadorName[s])
       IN  /\ env.noise \/ r.gs # gameState
           /\ gameState' = r.gs
           /\ out' = r.out
    /\ cmd' = Cmd("passTurn", s)
    /\ UNCHANGED <<jugadores, jugadorName, nsock, closed, timers, rng, rounds,
                   restarts, disconnects, rebinds, env, crashed>>

PlayerReady(s) ==
    /\ ~crashed
    /\ env.early \/ AwaitingReady
    /\ LET r == playerReadyForNewRound(gameState, jugadores, jugadorName[s],
                                       RandomDraws(rng))
       IN  /\ env.noise \/ r.gs # gameState
           /\ Dealt(r.dealt)
           /\ gameState' = r.gs
           /\ out' = r.out
    /\ cmd' = Cmd("playerReadyForNewRound", s)
    /\ UNCHANGED <<jugadores, jugadorName, nsock, closed, timers, restarts,
                   disconnects, rebinds, env, crashed>>

Restart(s) ==
    /\ ~crashed
    /\ restarts < env.restarts
    /\ LET r == restartGame(gameState, jugadores, s)
       IN  /\ gameState' = r.gs
           /\ timers' = IF r.scheduled THEN timers + 1 ELSE timers
           /\ out' = r.out
    /\ restarts' = restarts + 1
    /\ cmd' = Cmd("restartGame", s)
    /\ UNCHANGED <<jugadores, jugadorName, nsock, closed, rng, rounds, disconnects,
                   rebinds, env, crashed>>

\* the callback of the setTimeout in restartGame
RestartTimer ==
    /\ ~crashed
    /\ timers > 0
    /\ LET r == initializeRound(gameState, jugadores, RandomDraws(rng))
       IN  /\ Dealt(TRUE)
           /\ gameState' = r.gs
           /\ out' = r.out
    /\ timers' = timers - 1
    /\ cmd' = Cmd("timeout", null)
    /\ UNCHANGED <<jugadores, jugadorName, nsock, closed, restarts, disconnects,
                   rebinds, env, crashed>>

ChatMessage(s) ==
    /\ ~crashed
    /\ env.noise
    /\ out' = chatMessage(jugadores, s)
    /\ cmd' = Cmd("chatMessage", s)
    /\ UNCHANGED <<jugadores, gameState, jugadorName, nsock, closed, timers, rng,
                   rounds, restarts, disconnects, rebinds, env, crashed>>

VoiceMessage(s) ==
    /\ ~crashed
    /\ env.noise
    /\ out' = voiceMessage(s)
    /\ cmd' = Cmd("voiceMessage", s)
    /\ UNCHANGED <<jugadores, gameState, jugadorName, nsock, closed, timers, rng,
                   rounds, restarts, disconnects, rebinds, env, crashed>>

Disconnect(s) ==
    /\ ~crashed
    /\ disconnects < env.drops
    /\ LET r == disconnect(gameState, jugadores, s)
       IN  /\ gameState' = r.gs
           /\ jugadores' = r.jug
           /\ out' = r.out
    /\ closed' = closed \cup {s}
    /\ jugadorName' = [jugadorName EXCEPT ![s] = null]
    /\ disconnects' = disconnects + 1
    /\ cmd' = Cmd("disconnect", s)
    /\ UNCHANGED <<nsock, timers, rng, rounds, restarts, rebinds, env, crashed>>

Next ==
    \/ \E s \in Live \cup NewSocket : \E name \in NameInputs(s) : Identify(s, name)
    \/ \E s \in Live : \E move \in MoveInputs(s) : PlaceTile(s, move[1], move[2])
    \/ \E s \in Live : PassTurn(s)
    \/ \E s \in Live : PlayerReady(s)
    \/ \E s \in Live : Restart(s)
    \/ RestartTimer
    \/ \E s \in Live : ChatMessage(s)
    \/ \E s \in Live : VoiceMessage(s)
    \/ \E s \in Live : Disconnect(s)

Spec == Init /\ [][Next]_vars

(***************************************************************************)
(* The deal on its own.  The server has four connected players and a       *)
(* restartGame has just been served: gameState is the one createNewGameState *)
(* returns and the 2 second timer is pending; its callback deals.  Here    *)
(* Math.random is a linear congruential generator, started from any of     *)
(* NumShuffles seeds, so that every seed deals another permutation.        *)
(***************************************************************************)
NextRandom(x) == (75 * x + 74) % 65537

RECURSIVE RandomSeq(_, _)
RandomSeq(x, n) ==
    IF n = 0 THEN <<>> ELSE <<NextRandom(x)>> \o RandomSeq(NextRandom(x), n - 1)

\* Math.floor(Math.random() * (i + 1)) for i = 27 down to 1
GeneratedDraws(seed) ==
    LET n == Len(generateDominoes)
        xs == RandomSeq(seed, n - 1)
    IN  [k \in 1..(n - 1) |-> (xs[k] * (n + 1 - k)) \div 65537]

FourSeated ==
    [p \in Seats |-> [assignedName |-> <<p>>, socketId |-> p, isConnected |-> TRUE]]

InitDeal ==
    /\ jugadores = FourSeated
    /\ gameState = createNewGameState
    /\ jugadorName = [s \in Sockets |-> IF s \in Seats THEN s ELSE null]
    /\ nsock = NumSeats
    /\ closed = {}
    /\ timers = 1
    /\ rng \in 1..NumShuffles
    /\ rounds = 0
    /\ restarts = 1
    /\ disconnects = 0
    /\ rebinds = 0
    /\ env = [Nominal EXCEPT !.restarts = 1]
    /\ crashed = FALSE
    /\ cmd = Cmd("restartGame", 1)
    /\ out = restartGame(createNewGameState, FourSeated, 1).out

\* the callback of the setTimeout in restartGame
ShuffledDeal ==
    /\ timers > 0
    /\ LET r == initializeRound(gameState, jugadores, GeneratedDraws(rng))
       IN  /\ gameState' = r.gs
           /\ out' = r.out
    /\ timers' = timers - 1
    /\ rounds' = rounds + 1
    /\ cmd' = Cmd("timeout", null)
    /\ UNCHANGED <<jugadores, jugadorName, nsock, closed, rng, restarts, disconnects,
                   rebinds, env, crashed>>

DealSpec == InitDeal /\ [][ShuffledDeal]_vars

(***************************************************************************)
(* A table of four that stays.  The four players are connected throughout, *)
(* the first round has just been dealt, and the only commands are those    *)
(* of the seat in turn, which places a tile when the rules allow one of    *)
(* its hand and passes otherwise, and the acknowledgements between rounds.  *)
(* Of the placements the rules allow, in the order of its hand, a seat     *)
(* places the first in one run, the second in another, and so on up to    *)
(* MaxChoice (env.pick), or the last when it has fewer.                    *)
(***************************************************************************)
Sides == <<"left", "right">>

\* the placements of the hand of seat p, in the order of the hand
Placements(gs, p) ==
    LET hand == IF HasHand(gs, p) THEN gs.hands[p] ELSE <<>>
    IN  [k \in 1..(2 * Len(hand)) |-> <<hand[(k + 1) \div 2], Sides[2 - (k % 2)]>>]

\* the rules of the game, as the players know them: the opening tile of a
\* match is 6|6 and that of a later round is any tile; afterwards a tile goes
\* to an end of the board that one of its faces equals
LegalPlacement(gs, m) ==
    IF gs.board = <<>>
    THEN gs.isFirstRoundOfMatch => IsDoubleSix(m[1])
    ELSE \/ m[2] = "left" /\ gs.leftEnd \in {Left(m[1]), Right(m[1])}
         \/ m[2] = "right" /\ gs.rightEnd \in {Left(m[1]), Right(m[1])}

LegalPlacements(gs, p) == SelectSeq(Placements(gs, p), LAMBDA m : LegalPlacement(gs, m))

\* the n-th of them, or the last when there are fewer
NthLegal(gs, p, n) ==
    LET legal == LegalPlacements(gs, p)
    IN  IF legal = <<>> THEN {}
        ELSE {legal[IF Len(legal) < n THEN Len(legal) ELSE n]}

InitLive ==
    /\ jugadores = FourSeated
    /\ jugadorName = [s \in Sockets |-> IF s \in Seats THEN s ELSE null]
    /\ nsock = NumSeats
    /\ closed = {}
    /\ timers = 0
    /\ rng \in 1..NumDeals
    /\ LET j3 == [FourSeated EXCEPT ![NumSeats] = createJugadores[NumSeats]]
           r == setPlayerName(createNewGameState, j3, NumSeats, null, <<NumSeats>>,
                              GeneratedDraws(rng))
       IN  /\ gameState = r.gs
           /\ out = r.out
    /\ rounds = 1
    /\ restarts = 0
    /\ disconnects = 0
    /\ rebinds = 0
    /\ env \in {[Nominal EXCEPT !.rounds = MaxLiveRounds, !.pick = n] : n \in 1..MaxChoice}
    /\ crashed = FALSE
    /\ cmd = Cmd("setPlayerName", NumSeats)

\* the seat in turn places a tile that the rules allow
LivePlace ==
    /\ gameState.gameInitialized
    /\ gameState.currentTurn # null
    /\ \E m \in NthLegal(gameState, gameState.currentTurn, env.pick) :
       \E s \in {jugadores[gameState.currentTurn].socketId} :
       \E r \in {placeTile(gameState, jugadores, s, gameState.currentTurn, m[1], m[2])} :
          /\ gameState' = r.gs
          /\ crashed' = r.crash
          /\ out' = r.out
          /\ cmd' = Cmd("placeTile", s)
    /\ UNCHANGED <<jugadores, jugadorName, nsock, closed, timers, rng, rounds,
                   restarts, disconnects, rebinds, env>>

\* the seat in turn, which holds no tile that the rules allow, passes
LivePass ==
    /\ gameState.gameInitialized
    /\ gameState.currentTurn # null
    /\ LegalPlacements(gameState, gameState.currentTurn) = <<>>
    /\ \E r \in {passTurn(gameState, jugadores, gameState.currentTurn)} :
          /\ gameState' = r.gs
          /\ out' = r.out
    /\ cmd' = Cmd("passTurn", jugadores[gameState.currentTurn].socketId)
    /\ UNCHANGED <<jugadores, jugadorName, nsock, closed, timers, rng, rounds,
                   restarts, disconnects, rebinds, env, crashed>>

\* a seat acknowledges the settled round; the fourth acknowledgement deals
LiveReady(s) ==
    /\ ~gameState.gameInitialized
    /\ rounds < env.rounds
    /\ jugadorName[s] \notin gameState.readyPlayers
    /\ LET r == playerReadyForNewRound(gameState, jugadores, jugadorName[s],
                                       GeneratedDraws(rng + NumDeals))
       IN  /\ gameState' = r.gs
           /\ out' = r.out
           /\ rounds' = IF r.dealt THEN rounds + 1 ELSE rounds
           /\ rng' = IF r.dealt THEN rng + NumDeals ELSE rng
    /\ cmd' = Cmd("playerReadyForNewRound", s)
    /\ UNCHANGED <<jugadores, jugadorName, nsock, closed, timers, restarts,
                   disconnects, rebinds, env, crashed>>

LivePlay == LivePlace \/ LivePass

NextLive ==
    \/ LivePlace
    \/ LivePass
    \/ \E s \in Seats : LiveReady(s)

\* ENABLED <<LivePlay>>_vars: the command the seat in turn sends makes a step
PlayEnabled ==
    /\ gameState.gameInitialized
    /\ gameState.currentTurn # null
    /\ LET p == gameState.currentTurn
           s == jugadores[p].socketId
       IN  \/ \E m \in NthLegal(gameState, p, env.pick) :
                 LET r == placeTile(gameState, jugadores, s, p, m[1], m[2])
                 IN  <<r.gs, r.crash, r.out, Cmd("placeTile", s)>>
                        # <<gameState, crashed, out, cmd>>
           \/ /\ LegalPlacements(gameState, p) = <<>>
              /\ LET r == passTurn(gameState, jugadores, p)
                 IN  <<r.gs, r.out, Cmd("passTurn", s)>> # <<gameState, out, cmd>>

\* the seat in turn always eventually sends its command: LivePlay is weakly
\* fair, WF_vars(LivePlay) with its enabling condition written out
LivePlayIsFair == []<>(~PlayEnabled) \/ []<><<LivePlay>>_vars

LiveSpec == InitLive /\ [][NextLive]_vars /\ LivePlayIsFair

(***************************************************************************)
(* Properties.                                                             *)
(***************************************************************************)
\* the tiles in the hands of the seats that have one
HandsLength == SumSeq([p \in Seats |-> IF HasHand(gameState, p) THEN Len(gameState.hands[p]) ELSE 0])

NumConnected == Len(ConnectedSeats(jugadores))

\* C1: while a round is active (gameInitialized), the lengths of the four
\* seats' hands and of the board add up to the 28 tiles of the set.
C1_TilesAddUp ==
    gameState.gameInitialized =>
        HandsLength + Len(gameState.board) = Len(generateDominoes)

\* how many times tile t occurs in seq, whichever way round
CountIn(seq, t) == Cardinality({i \in 1..Len(seq) : SameTile(seq[i], t)})

\* in how many places (hands and board) tile t is
Locations(t) ==
    SumSeq([p \in Seats |-> IF HasHand(gameState, p)
                            THEN CountIn(gameState.hands[p], t) ELSE 0])
    + CountIn(gameState.board, t)

\* C2: while a round is active, every tile of the set is in exactly one
\* place: one seat's hand, or the board.
C2_OneLocation ==
    gameState.gameInitialized =>
        \A i \in 1..Len(generateDominoes) : Locations(generateDominoes[i]) = 1

\* C3: with tiles on the board, leftEnd is the left face of the first tile and
\* rightEnd the right face of the last; with an empty board both are unset.
C3_EndsAreOutwardFaces ==
    IF gameState.board = <<>>
    THEN gameState.leftEnd = null /\ gameState.rightEnd = null
    ELSE /\ gameState.leftEnd = Left(gameState.board[1])
         /\ gameState.rightEnd = Right(gameState.board[Len(gameState.board)])

\* tiles were added on both sides of the first tile
C3_Witness ==
    /\ Len(gameState.board) >= 3
    /\ gameState.board[1] # gameState.spinnerTile
    /\ gameState.board[Len(gameState.board)] # gameState.spinnerTile

\* what a disconnect and a reclaim have to leave alone
PlayUnchanged ==
    /\ gameState'.board = gameState.board
    /\ gameState'.currentTurn = gameState.currentTurn
    /\ gameState'.teamScores = gameState.teamScores
    /\ gameState'.hands = gameState.hands
    /\ gameState'.handKeys = gameState.handKeys

\* the step serves this event
Serves(op) == cmd'.op = op

\* in this round seat X is disconnected and still carries the name N
Vacated(X, N) ==
    /\ gameState.gameInitialized
    /\ ~jugadores[X].isConnected
    /\ jugadores[X].assignedName = N

\* C4: a seat that is disconnected in an active round keeps its name and its
\* hand as long as that round lasts and no connection is bound to it; the
\* disconnect changes neither board, turn, scores nor hands; and a connection
\* without a seat that then identifies by the seat's name is bound to that
\* seat and sent that hand, with no deal and with board, turn, scores and
\* hands unchanged.
C4_SeatReclaimed ==
    [][ /\ \A X \in Seats :
              ( /\ gameState.gameInitialized /\ gameState'.gameInitialized
                /\ rounds' = rounds
                /\ ~jugadores'[X].isConnected )
              => /\ jugadores'[X].assignedName = jugadores[X].assignedName
                 /\ gameState'.hands[X] = gameState.hands[X]
                 /\ HasHand(gameState', X) = HasHand(gameState, X)
        /\ (Serves("disconnect") /\ gameState.gameInitialized /\ gameState'.gameInitialized)
              => PlayUnchanged
        /\ (Serves("setPlayerName") /\ jugadorName[cmd'.sock] = null) =>
              \A X \in Seats : \A name \in NameInputs(cmd'.sock) :
                 ( /\ Identify(cmd'.sock, name)
                   /\ jugadores[X].assignedName # NoName
                   /\ Vacated(X, NormalizeName(name)) )
                 => /\ jugadorName'[cmd'.sock] = X
                    /\ jugadores'[X] = [assignedName |-> NormalizeName(name),
                                        socketId |-> cmd'.sock, isConnected |-> TRUE]
                    /\ HasHand(gameState, X)
                    /\ Includes(out', HandMsg(cmd'.sock, gameState.hands[X]))
                    /\ rounds' = rounds
                    /\ gameState'.gameInitialized
                    /\ PlayUnchanged
      ]_vars

\* a fifth connection has reclaimed a seat whose player left after tiles
\* were played, and was sent the hand
C4_Witness ==
    /\ cmd.op = "setPlayerName"
    /\ cmd.sock > NumSeats
    /\ jugadorName[cmd.sock] # null
    /\ gameState.gameInitialized
    /\ gameState.board # <<>>
    /\ Len(gameState.hands[jugadorName[cmd.sock]]) < HandSize
    /\ Includes(out, HandMsg(cmd.sock, gameState.hands[jugadorName[cmd.sock]]))

\* a team has reached the target and the match is over
MatchDecided ==
    /\ gameState.matchOver
    /\ \/ gameState.teamScores.teamA >= POINTS_TO_WIN_MATCH
       \/ gameState.teamScores.teamB >= POINTS_TO_WIN_MATCH

\* the step is the playerReadyForNewRound after which all four connected
\* seats have called it
AllReadyStep ==
    /\ Serves("playerReadyForNewRound")
    /\ NumConnected = NumSeats
    /\ gameState.readyPlayers \cup {jugadorName[cmd'.sock]} = Seats

NoReset ==
    /\ gameState'.teamScores = gameState.teamScores
    /\ gameState'.matchNumber = gameState.matchNumber
    /\ gameState'.teams = gameState.teams
    /\ gameState'.matchOver = gameState.matchOver
    /\ rounds' = rounds

C6_DealsNeedFour ==
    [][rounds' # rounds => Len(ConnectedSeats(jugadores')) = NumSeats]_vars

\* the seat after currentTurn in the round's seating order
NextInSeating(gs) == gs.seating[(Rank(gs.seating, gs.currentTurn) % NumSeats) + 1]

\* C7: while a round is active, currentTurn changes only on a placeTile or
\* passTurn step, and then to the next seat of the seating order.
C7_TurnRotates ==
    [][ ( /\ gameState.gameInitialized
          /\ gameState'.gameInitialized
          /\ gameState'.currentTurn # gameState.currentTurn )
        => /\ Serves("placeTile") \/ Serves("passTurn")
           /\ gameState'.currentTurn = NextInSeating(gameState) ]_vars

\* C8: a placeTile or passTurn sent by a seat that is not currentTurn leaves
\* the board, both ends, every hand, currentTurn and the scores as they
\* were.
C8_OutOfTurnRejected ==
    [][ ( /\ Serves("placeTile") \/ Serves("passTurn")
          /\ jugadorName[cmd'.sock] # null
          /\ jugadorName[cmd'.sock] # gameState.currentTurn )
        => /\ gameState'.board = gameState.board
           /\ gameState'.leftEnd = gameState.leftEnd
           /\ gameState'.rightEnd = gameState.rightEnd
           /\ gameState'.hands = gameState.hands
           /\ gameState'.handKeys = gameState.handKeys
           /\ gameState'.currentTurn = gameState.currentTurn
           /\ gameState'.teamScores = gameState.teamScores ]_vars

\* in a round under way a seat out of turn has just sent a move, and nothing
\* was sent back
C8_Witness ==
    /\ cmd.op \in {"placeTile", "passTurn"}
    /\ gameState.gameInitialized
    /\ gameState.board # <<>>
    /\ jugadorName[cmd.sock] # null
    /\ jugadorName[cmd.sock] # gameState.currentTurn
    /\ HasHand(gameState, jugadorName[cmd.sock])
    /\ out = <<>>

DoubleSix == <<MaxPip, MaxPip>>

\* the step deals a round
RoundStarts == rounds' # rounds

\* the round dealt by the step opens with the seat that was dealt 6|6
OpenerHoldsDoubleSix ==
    (RoundStarts /\ gameState'.isFirstRoundOfMatch)
        => HoldsDoubleSix(gameState', gameState'.currentTurn)

\* on the empty board of a match's first round a tile other than 6|6 changes
\* nothing
OnlyDoubleSixOpens ==
    ( /\ Serves("placeTile")
      /\ gameState.gameInitialized
      /\ gameState.isFirstRoundOfMatch
      /\ gameState.board = <<>> )
    => \A m \in MoveInputs(cmd'.sock) :
          (PlaceTile(cmd'.sock, m[1], m[2]) /\ ~IsDoubleSix(m[1]))
              => gameState' = gameState

\* there, 6|6 sent by the seat in turn is accepted and becomes the spinner
DoubleSixAccepted ==
    ( /\ Serves("placeTile")
      /\ gameState.gameInitialized
      /\ gameState.isFirstRoundOfMatch
      /\ gameState.board = <<>>
      /\ jugadorName[cmd'.sock] = gameState.currentTurn
      /\ HoldsDoubleSix(gameState, gameState.currentTurn) )
    => \A m \in MoveInputs(cmd'.sock) :
          (PlaceTile(cmd'.sock, m[1], m[2]) /\ IsDoubleSix(m[1]))
              => /\ gameState'.board = <<DoubleSix>>
                 /\ gameState'.spinnerTile = DoubleSix
                 /\ gameState'.leftEnd = MaxPip
                 /\ gameState'.rightEnd = MaxPip
                 /\ Len(gameState'.hands[gameState.currentTurn])
                        = Len(gameState.hands[gameState.currentTurn]) - 1

\* C9: the first round of a match opens with the seat holding 6|6; on its
\* empty board any other tile is rejected without a change, and 6|6 is
\* accepted, becomes the spinner and sets both ends to 6.
C9_DoubleSixOpensMatch ==
    [][OpenerHoldsDoubleSix /\ OnlyDoubleSixOpens /\ DoubleSixAccepted]_vars

\* C10: a round dealt as the first of a match starts with the seat that was
\* dealt 6|6; any other round starts with lastWinner if that seat is
\* connected, else with the first seat of the seating order.
C10_StartingSeat ==
    [][ RoundStarts =>
          IF gameState'.isFirstRoundOfMatch
          THEN HoldsDoubleSix(gameState', gameState'.currentTurn)
          ELSE gameState'.currentTurn =
                  IF /\ gameState.lastWinner # null
                     /\ jugadores'[gameState.lastWinner].isConnected
                  THEN gameState.lastWinner
                  ELSE gameState'.seating[1] ]_vars

Faces(t) == {Left(t), Right(t)}

\* C11: with tiles on the board, a placeTile of the seat in turn for a tile of
\* its hand is accepted exactly when the side is left and a face equals
\* leftEnd, or the side is right and a face equals rightEnd; when accepted,
\* that tile alone leaves the hand and joins the board at that end with the
\* matching face inwards.
C11_PlacementRule ==
    [][ ( /\ Serves("placeTile")
          /\ gameState.gameInitialized
          /\ gameState.board # <<>>
          /\ jugadorName[cmd'.sock] = gameState.currentTurn
          /\ HasHand(gameState, gameState.currentTurn) )
        => \A m \in MoveInputs(cmd'.sock) :
              LET p == gameState.currentTurn
                  hand == gameState.hands[p]
                  held == {i \in 1..Len(hand) : Faces(hand[i]) = Faces(m[1])}
                  n == Len(gameState.board)
              IN  (PlaceTile(cmd'.sock, m[1], m[2]) /\ held # {}) =>
                    LET i == CHOOSE i \in held : TRUE
                    IN  IF m[2] = "left" /\ gameState.leftEnd \in Faces(hand[i])
                        THEN /\ gameState'.hands =
                                   [gameState.hands EXCEPT ![p] = RemoveAt(hand, i)]
                             /\ Len(gameState'.board) = n + 1
                             /\ Tail(gameState'.board) = gameState.board
                             /\ Faces(gameState'.board[1]) = Faces(hand[i])
                             /\ Right(gameState'.board[1]) = gameState.leftEnd
                        ELSE IF m[2] = "right" /\ gameState.rightEnd \in Faces(hand[i])
                        THEN /\ gameState'.hands =
                                   [gameState.hands EXCEPT ![p] = RemoveAt(hand, i)]
                             /\ Len(gameState'.board) = n + 1
                             /\ SubSeq(gameState'.board, 1, n) = gameState.board
                             /\ Faces(gameState'.board[n + 1]) = Faces(hand[i])
                             /\ Left(gameState'.board[n + 1]) = gameState.rightEnd
                        ELSE gameState' = gameState
      ]_vars

\* a tile was just played on the left, turned round to match
C11_Witness ==
    /\ cmd.op = "placeTile"
    /\ Len(gameState.board) >= 2
    /\ gameState.lastPlayedTile = gameState.board[1]
    /\ Left(gameState.board[1]) > Right(gameState.board[1])

\* hasLegalMove(seat) as the rules give it
LegalMove(gs, p) ==
    LET hand == IF HasHand(gs, p) THEN gs.hands[p] ELSE <<>>
    IN  IF gs.board = <<>>
        THEN gs.isFirstRoundOfMatch => \E i \in 1..Len(hand) : hand[i] = DoubleSix
        ELSE \E i \in 1..Len(hand) :
                gs.leftEnd \in Faces(hand[i]) \/ gs.rightEnd \in Faces(hand[i])

\* C12: a passTurn of the seat in turn in an active round moves the turn to
\* the next seat exactly when the seat has no legal move; when it has one,
\* nothing changes.
C12_PassRule ==
    [][ ( /\ Serves("passTurn")
          /\ gameState.gameInitialized
          /\ jugadorName[cmd'.sock] # null
          /\ jugadorName[cmd'.sock] = gameState.currentTurn )
        => IF LegalMove(gameState, gameState.currentTurn)
           THEN gameState' = gameState
           ELSE /\ gameState'.currentTurn = NextInSeating(gameState)
                /\ Includes(out', [Ev("playerPassed", Everyone) EXCEPT
                                      !.seat = gameState.currentTurn])
      ]_vars

\* a pass was just accepted and the round goes on
C12_Witness ==
    /\ cmd.op = "passTurn"
    /\ gameState.gameInitialized
    /\ out # <<>>
    /\ out[1].ev = "playerPassed"
    /\ gameState.currentTurn # jugadorName[cmd.sock]

\* the pips left in seat q's hand
HandPips(gs, q) ==
    IF HasHand(gs, q)
    THEN SumSeq([i \in 1..Len(gs.hands[q]) |-> Left(gs.hands[q][i]) + Right(gs.hands[q][i])])
    ELSE 0

TeamOf(gs, p) == IF Includes(gs.teams.teamA, p) THEN "teamA" ELSE "teamB"

OtherTeam(k) == IF k = "teamA" THEN "teamB" ELSE "teamA"

TeamTotal(gs, k) == HandPips(gs, gs.teams[k][1]) + HandPips(gs, gs.teams[k][2])

\* the step is a placement of the connected seat in turn that plays the last
\* tile of its hand
EmptiesHand ==
    /\ Serves("placeTile")
    /\ gameState.gameInitialized
    /\ jugadorName[cmd'.sock] # null
    /\ jugadorName[cmd'.sock] = gameState.currentTurn
    /\ jugadores[gameState.currentTurn].isConnected
    /\ HasHand(gameState, gameState.currentTurn)
    /\ Len(gameState.hands[gameState.currentTurn]) = 1
    /\ gameState'.hands[gameState.currentTurn] = <<>>

\* C13: a placement that empties a connected seat's hand ends the round in
\* the same step; the seat's team gains the pips left in the two opposing
\* hands, the other team's score stays, lastWinner is the seat, and a
\* playerWonHand event with the seat and the points is emitted.
C13_HandWon ==
    [][ EmptiesHand =>
          LET p == gameState.currentTurn
              k == TeamOf(gameState, p)
              points == TeamTotal(gameState', OtherTeam(k))
          IN  /\ ~gameState'.gameInitialized
              /\ gameState'.teamScores[k] = gameState.teamScores[k] + points
              /\ gameState'.teamScores[OtherTeam(k)] = gameState.teamScores[OtherTeam(k)]
              /\ gameState'.lastWinner = p
              /\ Includes(out', [Ev("playerWonHand", Everyone) EXCEPT
                                    !.seat = p, !.pts = points])
      ]_vars

\* a seat has just played its last tile and its team was paid
C13_Witness ==
    /\ cmd.op = "placeTile"
    /\ ~gameState.gameInitialized
    /\ jugadorName[cmd.sock] # null
    /\ gameState.lastWinner = jugadorName[cmd.sock]
    /\ HasHand(gameState, gameState.lastWinner)
    /\ gameState.hands[gameState.lastWinner] = <<>>
    /\ \E i \in 1..Len(out) : out[i].ev = "playerWonHand" /\ out[i].pts > 0

\* the step is an accepted placement or pass of the seat in turn
MovePlayed ==
    /\ Serves("placeTile") \/ Serves("passTurn")
    /\ gameState.gameInitialized
    /\ jugadorName[cmd'.sock] # null
    /\ jugadorName[cmd'.sock] = gameState.currentTurn
    /\ gameState'.currentTurn # gameState.currentTurn

\* the hands and the board as the step's move left them, in the round the
\* move was made in
AfterMove == [gameState' EXCEPT !.isFirstRoundOfMatch = gameState.isFirstRoundOfMatch]

NoHandEmpty == \A q \in Seats : HasHand(AfterMove, q) => AfterMove.hands[q] # <<>>

\* after the step's move no connected seat has a legal move and no hand is
\* empty
Stuck ==
    /\ \A q \in Seats : jugadores[q].isConnected => ~LegalMove(AfterMove, q)
    /\ NoHandEmpty

\* C14: when a placement or pass leaves no connected seat with a legal move
\* and no hand empty, the round ends as a block in the same step; if the
\* teams' pip totals differ, the team with the lower total gains the other
\* team's total and the other team's score stays.
C14_BlockAward ==
    [][ (MovePlayed /\ Stuck) =>
          LET a == TeamTotal(gameState', "teamA")
              b == TeamTotal(gameState', "teamB")
              w == IF a < b THEN "teamA" ELSE "teamB"
          IN  /\ ~gameState'.gameInitialized
              /\ a # b =>
                    /\ gameState'.teamScores[w] =
                           gameState.teamScores[w] + (IF a < b THEN b ELSE a)
                    /\ gameState'.teamScores[OtherTeam(w)] =
                           gameState.teamScores[OtherTeam(w)]
      ]_vars

\* a round has just ended blocked with one team ahead, both teams holding
\* tiles
C14_Witness ==
    /\ cmd.op \in {"placeTile", "passTurn"}
    /\ ~gameState.gameInitialized
    /\ gameState.endRoundMessage = "cerrado"
    /\ TeamTotal(gameState, "teamA") > 0
    /\ TeamTotal(gameState, "teamB") > 0
    /\ NumConnected = NumSeats

\* C15: a block with equal team pip totals leaves both scores as they were
\* and records a tie; the settlement completes.
C15_TieAwardsNothing ==
    [][ ( /\ MovePlayed
          /\ Stuck
          /\ TeamTotal(gameState', "teamA") = TeamTotal(gameState', "teamB") )
        => /\ ~gameState'.gameInitialized
           /\ gameState'.teamScores = gameState.teamScores
           /\ gameState'.endRoundMessage = "empate"
           /\ ~crashed'
      ]_vars

\* a round has just ended blocked with equal totals
C15_Witness ==
    /\ cmd.op \in {"placeTile", "passTurn"}
    /\ ~gameState.gameInitialized
    /\ gameState.endRoundMessage = "empate"
    /\ TeamTotal(gameState, "teamA") = TeamTotal(gameState, "teamB")
    /\ TeamTotal(gameState, "teamA") > 0

\* C16: a round dealt after a block with equal totals opens with the seat
\* that the new deal gave 6|6.
C16_TieThenDoubleSix ==
    [][ (RoundStarts /\ gameState.endRoundMessage = "empate")
        => HoldsDoubleSix(gameState', gameState'.currentTurn) ]_vars

\* the step ends the round as a block won by team w
BlockWonBy(w) ==
    /\ MovePlayed
    /\ Stuck
    /\ TeamTotal(gameState', w) < TeamTotal(gameState', OtherTeam(w))

\* C17: after a block won by one team, lastWinner is the seat of the winning
\* team with the lowest pip total.
C17_LeaderOfWinningTeam ==
    [][ \A w \in {"teamA", "teamB"} :
          BlockWonBy(w) =>
             /\ Includes(gameState'.teams[w], gameState'.lastWinner)
             /\ \A i \in 1..Len(gameState'.teams[w]) :
                   HandPips(gameState', gameState'.lastWinner)
                      <= HandPips(gameState', gameState'.teams[w][i])
      ]_vars

\* C17, amended: after a block won by one team, lastWinner is the connected
\* seat with the lowest pip total of all connected seats, the first of them
\* in slot order.
C17_LeaderOfAll ==
    [][ \A w \in {"teamA", "teamB"} :
          BlockWonBy(w) =>
             LET lw == gameState'.lastWinner
             IN  /\ lw \in Seats
                 /\ jugadores[lw].isConnected
                 /\ \A q \in Seats : jugadores[q].isConnected =>
                       /\ HandPips(gameState', lw) <= HandPips(gameState', q)
                       /\ q < lw => HandPips(gameState', lw) < HandPips(gameState', q)
      ]_vars

\* a block was just won by one team and the seat with the fewest pips is on
\* the other
C17_Witness ==
    /\ cmd.op \in {"placeTile", "passTurn"}
    /\ ~gameState.gameInitialized
    /\ gameState.endRoundMessage = "cerrado"
    /\ gameState.lastWinner # null
    /\ NumConnected = NumSeats
    /\ TeamTotal(gameState, TeamOf(gameState, gameState.lastWinner))
          > TeamTotal(gameState, OtherTeam(TeamOf(gameState, gameState.lastWinner)))

\* the step ends an active round as a block
BlockSettled ==
    /\ Serves("placeTile") \/ Serves("passTurn")
    /\ gameState.gameInitialized
    /\ ~gameState'.gameInitialized
    /\ gameState'.endRoundMessage \in {"cerrado", "empate"}

\* C18: a round ends as a block only when none of the four seats has a legal
\* move and no hand is empty.
C18_BlockMeansNoMoves ==
    [][ BlockSettled =>
          /\ \A q \in Seats : ~LegalMove(AfterMove, q)
          /\ NoHandEmpty ]_vars

\* C18, amended: a round ends as a block only when no connected seat has a
\* legal move and no hand is empty.
C18_BlockMeansNoConnectedMoves ==
    [][ BlockSettled =>
          /\ \A q \in Seats : jugadores[q].isConnected => ~LegalMove(AfterMove, q)
          /\ NoHandEmpty ]_vars

\* a round just ended as a block while a seat that had left could still play
C18_Witness ==
    /\ cmd.op \in {"placeTile", "passTurn"}
    /\ ~gameState.gameInitialized
    /\ gameState.endRoundMessage \in {"cerrado", "empate"}
    /\ gameState.board # <<>>
    /\ NumConnected >= 2
    /\ \E q \in Seats :
          /\ ~jugadores[q].isConnected
          /\ LegalMove(gameState, q)

\* C19: a settlement that takes a team's score to the target sets matchOver
\* and adds one to the win counter of each seat of that team and of no other
\* seat; scores that have reached the target stay as they are until they
\* are reset to 0.
C19_MatchWon ==
    [][ /\ \A k \in {"teamA", "teamB"} :
              ( /\ gameState.gameInitialized
                /\ gameState.teamScores[k] < POINTS_TO_WIN_MATCH
                /\ gameState'.teamScores[k] >= POINTS_TO_WIN_MATCH )
              => /\ gameState'.matchOver
                 /\ \A q \in Seats :
                       gameState'.playerStats[q] =
                          gameState.playerStats[q]
                             + (IF Includes(gameState.teams[k], q) THEN 1 ELSE 0)
        /\ ( \/ gameState.teamScores.teamA >= POINTS_TO_WIN_MATCH
              \/ gameState.teamScores.teamB >= POINTS_TO_WIN_MATCH )
              => \/ gameState'.teamScores = gameState.teamScores
                 \/ gameState'.teamScores = [teamA |-> 0, teamB |-> 0]
      ]_vars

\* C20: when the last of the 4 connected seats acknowledges after matchOver,
\* both scores become 0, matchNumber grows by one, isFirstRoundOfMatch is
\* set, the teams are the pairing of the new matchNumber, and the win
\* counters and lastWinner are as before.
C20_NewMatch ==
    [][ (AllReadyStep /\ gameState.matchOver) =>
          /\ gameState'.teamScores = [teamA |-> 0, teamB |-> 0]
          /\ gameState'.matchNumber = gameState.matchNumber + 1
          /\ gameState'.isFirstRoundOfMatch
          /\ gameState'.teams = Pairing(gameState.matchNumber + 1)
          /\ gameState'.playerStats = gameState.playerStats
          /\ gameState'.lastWinner = gameState.lastWinner
      ]_vars

\* the second match has just been started by the fourth acknowledgement
C20_Witness ==
    /\ cmd.op = "playerReadyForNewRound"
    /\ gameState.matchNumber = 2
    /\ gameState.gameInitialized
    /\ gameState.board = <<>>
    /\ gameState.teams.teamA = <<1, 3>>
    /\ gameState.lastWinner # null
    /\ \E q \in Seats : gameState.playerStats[q] > 0

\* the round before the step ended without ending the match
RoundSettled ==
    /\ ~gameState.gameInitialized
    /\ gameState.endRoundMessage # ""
    /\ ~gameState.matchOver

\* C21: when the last of the 4 connected seats acknowledges after a round
\* that did not end the match, the same step deals a new round, and the team
\* scores, matchNumber and the win counters are as before.
C21_RedealKeepsScores ==
    [][ (AllReadyStep /\ RoundSettled) =>
          /\ rounds' = rounds + 1
          /\ gameState'.gameInitialized
          /\ gameState'.board = <<>>
          /\ gameState'.handKeys = Seats
          /\ \A q \in Seats : Len(gameState'.hands[q]) = HandSize
          /\ gameState'.teamScores = gameState.teamScores
          /\ gameState'.matchNumber = gameState.matchNumber
          /\ gameState'.playerStats = gameState.playerStats
      ]_vars

\* the fourth acknowledgement has just dealt the next round of a match in
\* which a team has points
C21_Witness ==
    /\ cmd.op = "playerReadyForNewRound"
    /\ gameState.gameInitialized
    /\ gameState.board = <<>>
    /\ gameState.readyPlayers = {}
    /\ ~gameState.isFirstRoundOfMatch
    /\ gameState.matchNumber = 1
    /\ gameState.teamScores.teamA + gameState.teamScores.teamB > 0
    /\ \A q \in Seats : Len(gameState.hands[q]) = HandSize

\* C22: where not all seats are ready, a playerReadyForNewRound leaves a
\* gameState that the same command from the same seat, sent again at once,
\* does not change.
C22_ReadyTwiceIsOnce ==
    [][ ( /\ Serves("playerReadyForNewRound")
          /\ jugadorName[cmd'.sock] # null
          /\ ~AllReady(gameState, jugadores) )
        => playerReadyForNewRound(gameState', jugadores', jugadorName'[cmd'.sock],
                                  RandomDraws(rng')).gs = gameState'
      ]_vars

\* the same, for a command after which not all 4 connected seats are ready
C22_ReadyTwiceBeforeAllReady ==
    [][ ( /\ Serves("playerReadyForNewRound")
          /\ jugadorName[cmd'.sock] # null
          /\ ~AllReady(gameState, jugadores)
          /\ ~AllReadyStep )
        => playerReadyForNewRound(gameState', jugadores', jugadorName'[cmd'.sock],
                                  RandomDraws(rng')).gs = gameState'
      ]_vars

Members(team) == {team[i] : i \in 1..Len(team)}

\* the two teams are two disjoint pairs of seats that cover the four seats
TwoPairs(teams) ==
    /\ Len(teams.teamA) = 2
    /\ Len(teams.teamB) = 2
    /\ Cardinality(Members(teams.teamA)) = 2
    /\ Cardinality(Members(teams.teamB)) = 2
    /\ Members(teams.teamA) \cap Members(teams.teamB) = {}
    /\ Members(teams.teamA) \cup Members(teams.teamB) = Seats

\* C23: the teams of every matchNumber are two disjoint pairs of seats that
\* cover the four seats, and so are the teams in every state in which a
\* round is active.
C23_TeamsPartition ==
    /\ \A m \in 1..(2 * NumPairings) : TwoPairs(Pairing(m))
    /\ gameState.gameInitialized =>
          /\ TwoPairs(gameState.teams)
          /\ gameState.teams = Pairing(gameState.matchNumber)

\* a round of the second match is under way
C23_Witness ==
    /\ gameState.gameInitialized
    /\ gameState.matchNumber = 2
    /\ Len(gameState.board) >= 2
    /\ gameState.teams.teamB = <<2, 4>>

\* the step is a placement or pass that the server accepted
MoveAccepted ==
    /\ Serves("placeTile") \/ Serves("passTurn")
    /\ \E i \in 1..Len(out') : out'[i].ev \in {"tilePlaced", "playerPassed"}

\* with the teams of match m and seat p in turn, nextTurn gives the turn to a
\* seat of the other team
HandsOver(m, p) ==
    LET teams == Pairing(m)
        gs == [createNewGameState EXCEPT !.teams = teams,
                                         !.seating = SeatingOf(teams),
                                         !.currentTurn = p]
    IN  Includes(teams[OtherTeam(TeamOf(gs, p))], nextTurn(gs).currentTurn)

\* C24: under each of the 3 pairings the turn passes from any seat to a seat
\* of the other team, and every accepted placement or pass leaves the turn
\* with a seat of the team that did not move.
C24_TeamsAlternate ==
    [][ /\ \A m \in 1..NumPairings : \A p \in Seats : HandsOver(m, p)
        /\ MoveAccepted =>
              /\ gameState.currentTurn \in Seats
              /\ Includes(gameState.teams[OtherTeam(TeamOf(gameState, gameState.currentTurn))],
                          gameState'.currentTurn)
      ]_vars

\* in the second match a move of a seat of team B was just accepted and the
\* round goes on
C24_Witness ==
    /\ cmd.op \in {"placeTile", "passTurn"}
    /\ gameState.gameInitialized
    /\ gameState.matchNumber = 2
    /\ Len(gameState.board) >= 2
    /\ jugadorName[cmd.sock] # null
    /\ Includes(gameState.teams.teamB, jugadorName[cmd.sock])
    /\ Includes(gameState.teams.teamA, gameState.currentTurn)

\* the unordered pairs (i, j), 0 <= i <= j <= 6
AllPairs == {<<i, j>> : i \in 0..MaxPip, j \in 0..MaxPip} \cap {t \in (0..MaxPip) \X (0..MaxPip) : t[1] <= t[2]}

\* the places <<seat, index>> of the hands at which tile t lies
HeldAt(t) ==
    {x \in Seats \X (1..HandSize) :
        /\ HasHand(gameState, x[1])
        /\ x[2] <= Len(gameState.hands[x[1]])
        /\ SameTile(gameState.hands[x[1]][x[2]], t)}

\* C25: a deal to 4 connected seats gives each seat 7 tiles, and each of the
\* 28 unordered pairs (i, j), 0 <= i <= j <= 6, lies in exactly one place of
\* the four hands.
C25_DealPartitions ==
    (cmd.op = "timeout" /\ NumConnected = NumSeats) =>
        /\ gameState.handKeys = Seats
        /\ \A p \in Seats : Len(gameState.hands[p]) = HandSize
        /\ Cardinality(AllPairs) = NumSeats * HandSize
        /\ \A t \in AllPairs : Cardinality(HeldAt(t)) = 1

\* a deal was made and the pool was shuffled: no seat was given the tiles in
\* the order in which generateDominoes lists them
C25_Witness ==
    /\ cmd.op = "timeout"
    /\ NumConnected = NumSeats
    /\ gameState.gameInitialized
    /\ \A p \in Seats :
          /\ Len(gameState.hands[p]) = HandSize
          /\ \A k \in 1..NumSeats :
                gameState.hands[p] # SubSeq(generateDominoes, HandSize * (k - 1) + 1, HandSize * k)

\* the seat bound to the socket whose event the step serves
ServedSlot == SlotOf(jugadores, cmd'.sock)

\* C26: a disconnect marks the socket's seat disconnected; if a round is
\* active the seat keeps its display name and its hand, and if no round is
\* active the seat's display name is cleared.
C26_DisconnectEffect ==
    [][ (Serves("disconnect") /\ ServedSlot # null) =>
          LET p == ServedSlot
          IN  /\ ~jugadores'[p].isConnected
              /\ jugadores'[p].socketId = null
              /\ IF gameState.gameInitialized
                 THEN /\ jugadores'[p].assignedName = jugadores[p].assignedName
                      /\ gameState'.hands[p] = gameState.hands[p]
                      /\ HasHand(gameState', p) = HasHand(gameState, p)
                 ELSE jugadores'[p].assignedName = NoName
      ]_vars

\* the same without the clearing: the seat is marked disconnected, and in an
\* active round it keeps its display name and its hand
C26_DisconnectKeepsInRound ==
    [][ (Serves("disconnect") /\ ServedSlot # null) =>
          LET p == ServedSlot
          IN  /\ ~jugadores'[p].isConnected
              /\ jugadores'[p].socketId = null
              /\ gameState.gameInitialized =>
                    /\ jugadores'[p].assignedName = jugadores[p].assignedName
                    /\ gameState'.hands[p] = gameState.hands[p]
                    /\ HasHand(gameState', p) = HasHand(gameState, p)
      ]_vars

\* the step's setPlayerName was refused: the socket was sent a gameError
IdentifyRefused ==
    /\ Serves("setPlayerName")
    /\ \E i \in 1..Len(out') : out'[i].ev = "gameError" /\ out'[i].to = cmd'.sock

\* C27: a setPlayerName that is refused, for a name a connected seat holds or
\* for want of a free seat, leaves every seat and gameState as they were and
\* binds no seat to the socket.
C27_RefusedIdentifyChangesNothing ==
    [][ IdentifyRefused =>
          /\ jugadores' = jugadores
          /\ gameState' = gameState
          /\ jugadorName'[cmd'.sock] = jugadorName[cmd'.sock] ]_vars

\* the same for a socket that has no seat
C27_RefusedNewcomerChangesNothing ==
    [][ (IdentifyRefused /\ jugadorName[cmd'.sock] = null /\ ServedSlot = null) =>
          /\ jugadores' = jugadores
          /\ gameState' = gameState
          /\ jugadorName'[cmd'.sock] = null ]_vars

\* C28: a restartGame from a socket that holds a seat sets both team scores
\* and every win counter to 0 and empties teams and board, as in the initial
\* gameState, and leaves the socket and the connected flag of every seat as
\* they were.
C28_RestartResets ==
    [][ (Serves("restartGame") /\ ServedSlot # null) =>
          /\ gameState'.teamScores = [teamA |-> 0, teamB |-> 0]
          /\ \A q \in Seats : gameState'.playerStats[q] = 0
          /\ gameState'.teams = [teamA |-> <<>>, teamB |-> <<>>]
          /\ gameState'.board = <<>>
          /\ gameState' = createNewGameState
          /\ \A q \in Seats :
                /\ jugadores'[q].socketId = jugadores[q].socketId
                /\ jugadores'[q].isConnected = jugadores[q].isConnected
      ]_vars

\* a game in which rounds were dealt has just been restarted with the four
\* seats connected
C28_Witness ==
    /\ cmd.op = "restartGame"
    /\ rounds >= 1
    /\ gameState = createNewGameState
    /\ NumConnected = NumSeats
    /\ \A q \in Seats : jugadores[q].socketId # null

\* a round is active before and after the step and the seat in turn is
\* disconnected before and after it
TurnSeatAway ==
    /\ gameState.gameInitialized
    /\ gameState'.gameInitialized
    /\ gameState.currentTurn \in Seats
    /\ ~jugadores[gameState.currentTurn].isConnected
    /\ ~jugadores'[gameState.currentTurn].isConnected

\* nothing is played and the turn stays where it is
Stalled ==
    /\ gameState'.currentTurn = gameState.currentTurn
    /\ gameState'.board = gameState.board
    /\ gameState'.hands = gameState.hands
    /\ \A i \in 1..Len(out') : out'[i].ev \notin {"tilePlaced", "playerPassed"}

\* C29: while the seat in turn is disconnected in an active round, no step
\* places a tile, passes or moves the turn to another seat.
C29_DisconnectedTurnStalls ==
    [][TurnSeatAway => Stalled]_vars

\* the same for steps that deal no round
C29_StallsWithinRound ==
    [][(TurnSeatAway /\ rounds' = rounds) => Stalled]_vars

\* the step serves a placeTile of the seat in turn, in an active round, for a
\* tile of its hand
TurnSeatPlaces ==
    /\ Serves("placeTile")
    /\ gameState.gameInitialized
    /\ jugadorName[cmd'.sock] # null
    /\ jugadorName[cmd'.sock] = gameState.currentTurn
    /\ HasHand(gameState, gameState.currentTurn)

\* tile t is in the hand of the seat in turn
InTurnHand(t) == TileIndex(gameState.hands[gameState.currentTurn], t) # 0

\* tile t opens the first round of a match and is not 6|6
BadOpener(t) ==
    /\ gameState.board = <<>>
    /\ gameState.isFirstRoundOfMatch
    /\ t # DoubleSix

\* no face of tile t equals the end of the board on the given side
BadEnd(t, side) ==
    /\ gameState.board # <<>>
    /\ \/ side = "left" /\ gameState.leftEnd \notin Faces(t)
       \/ side = "right" /\ gameState.rightEnd \notin Faces(t)

\* the move is refused: nothing of the game changes and the socket is sent a
\* gameError
Refused ==
    /\ gameState'.board = gameState.board
    /\ gameState'.leftEnd = gameState.leftEnd
    /\ gameState'.rightEnd = gameState.rightEnd
    /\ gameState'.hands = gameState.hands
    /\ gameState'.isFirstMove = gameState.isFirstMove
    /\ gameState'.currentTurn = gameState.currentTurn
    /\ gameState'.teamScores = gameState.teamScores
    /\ gameState' = gameState
    /\ \E i \in 1..Len(out') : out'[i].ev = "gameError" /\ out'[i].to = cmd'.sock

OutOfTurn ==
    /\ Serves("placeTile") \/ Serves("passTurn")
    /\ gameState.gameInitialized
    /\ jugadorName[cmd'.sock] # null
    /\ jugadorName[cmd'.sock] # gameState.currentTurn

\* C31: a placeTile or passTurn refused because its sender is not the seat in
\* turn is answered with a notice to the sender.
C31_OutOfTurnNotified ==
    [][ OutOfTurn => \E i \in 1..Len(out') : out'[i].to = cmd'.sock ]_vars

\* the refusal itself: nothing changes, and nothing at all is emitted
C31_OutOfTurnSilent ==
    [][ OutOfTurn => (gameState' = gameState /\ out' = <<>>) ]_vars

Reverse(s) == [i \in 1..Len(s) |-> s[Len(s) + 1 - i]]

\* gameState with other tiles in the hands, every hand as long as it is:
\* each hand turned end for end, each tile turned round, each hand replaced
\* by the first tiles of the set, and the hands of two seats exchanged where
\* they are equally long
OtherHands(gs) ==
    { [gs EXCEPT !.hands = [p \in Seats |-> Reverse(gs.hands[p])]],
      [gs EXCEPT !.hands = [p \in Seats |-> [i \in 1..Len(gs.hands[p]) |-> Flip(gs.hands[p][i])]]],
      [gs EXCEPT !.hands = [p \in Seats |-> SubSeq(generateDominoes, 1, Len(gs.hands[p]))]] }
    \cup
    { [gs EXCEPT !.hands = [gs.hands EXCEPT ![x[1]] = gs.hands[x[2]],
                                            ![x[2]] = gs.hands[x[1]]]] :
         x \in {y \in Seats \X Seats : Len(gs.hands[y[1]]) = Len(gs.hands[y[2]])} }

\* the snapshot is the same whatever tiles the hands hold
SnapshotHidesHands(gs, jug) ==
    \A g \in OtherHands(gs) : stateSnapshot(g, jug) = stateSnapshot(gs, jug)

\* every hand the step sends is the hand of a seat, sent to the socket that
\* seat is bound to
HandsSentToOwners ==
    \A i \in 1..Len(out') :
       (out'[i].ev = "playerHand" /\ out'[i].hand # <<>>) =>
          /\ \E p \in Seats : HasHand(gameState', p) /\ gameState'.hands[p] = out'[i].hand
          /\ \A p \in Seats :
                (HasHand(gameState', p) /\ gameState'.hands[p] = out'[i].hand)
                   => jugadores'[p].socketId = out'[i].to

\* C32: the snapshot sent to all sockets is the same for any two states that
\* differ only in which tiles the hands hold, the hands being as long; and a
\* hand is sent only to the socket bound to the seat whose hand it is.
C32_HandsArePrivate ==
    [][ /\ SnapshotHidesHands(gameState', jugadores')
        /\ \A i \in 1..Len(out') : out'[i].ev = "gameState" => out'[i].hand = <<>>
        /\ HandsSentToOwners ]_vars

\* a tile was just placed in a round in which the four hands differ in
\* length and in tiles, and the hand left was sent to the socket that placed
C32_Witness ==
    /\ cmd.op = "placeTile"
    /\ gameState.gameInitialized
    /\ Len(gameState.board) >= 2
    /\ \E g \in OtherHands(gameState) : g.hands # gameState.hands
    /\ \E i \in 1..Len(out) :
          /\ out[i].ev = "playerHand"
          /\ out[i].to = cmd.sock
          /\ out[i].hand = gameState.hands[jugadorName[cmd.sock]]
          /\ out[i].hand # <<>>

\* the step serves the disconnect of a seated socket and leaves no seat
\* connected
LastSeatLeaves ==
    /\ Serves("disconnect")
    /\ ServedSlot # null
    /\ Len(ConnectedSeats(jugadores')) = 0

\* C33: when the last connected seat disconnects, the seats and gameState are
\* reset to their initial values: no seat has a name or a connection, no round
\* is active, the scores are 0 and matchNumber is 1.
C33_LastDisconnectResets ==
    [][ LastSeatLeaves =>
          /\ jugadores' = createJugadores
          /\ gameState' = createNewGameState ]_vars

\* the same, for a last seat that leaves while no round is active
C33_LastDisconnectResetsBetweenRounds ==
    [][ (LastSeatLeaves /\ ~gameState.gameInitialized) =>
          /\ jugadores' = createJugadores
          /\ gameState' = createNewGameState ]_vars

SeatsBoundTo(s) == {p \in Seats : jugadores[p].socketId = s}

\* C34: no socket is bound to more than one seat.
C34_OneSeatPerSocket ==
    \A s \in Sockets : Cardinality(SeatsBoundTo(s)) <= 1

\* C35: a playerReadyForNewRound served while a round is active starts no
\* round and leaves the board, the hands, currentTurn and the round's flags
\* as they are.
C35_ReadyInRoundStartsNothing ==
    [][ (Serves("playerReadyForNewRound") /\ gameState.gameInitialized) =>
          /\ ~RoundStarts
          /\ gameState'.board = gameState.board
          /\ gameState'.hands = gameState.hands
          /\ gameState'.currentTurn = gameState.currentTurn
          /\ gameState'.gameInitialized
          /\ gameState'.isFirstMove = gameState.isFirstMove
          /\ gameState'.isFirstRoundOfMatch = gameState.isFirstRoundOfMatch ]_vars

\* as long as fewer than four acknowledgements have come in, it is so
C35_ReadyInRoundBeforeAllReady ==
    [][ (Serves("playerReadyForNewRound") /\ gameState.gameInitialized /\ ~AllReadyStep) =>
          /\ ~RoundStarts
          /\ gameState'.board = gameState.board
          /\ gameState'.hands = gameState.hands
          /\ gameState'.currentTurn = gameState.currentTurn
          /\ gameState'.gameInitialized ]_vars

\* C36: the round start scheduled by restartGame does not fire on a round
\* that is active: a round with tiles on the board is not discarded and dealt
\* again by the pending timer.
C36_TimerSparesActiveRound ==
    [][ (Serves("timeout") /\ gameState.gameInitialized /\ gameState.board # <<>>) =>
          /\ ~RoundStarts
          /\ gameState'.board = gameState.board
          /\ gameState'.hands = gameState.hands ]_vars

\* C37: while a round is active both team scores are below the match target
\* and matchOver is false.
C37_NoRoundAfterMatchWon ==
    gameState.gameInitialized =>
        /\ gameState.teamScores.teamA < POINTS_TO_WIN_MATCH
        /\ gameState.teamScores.teamB < POINTS_TO_WIN_MATCH
        /\ ~gameState.matchOver

Chained(board) ==
    \A i \in 1..(Len(board) - 1) : Right(board[i]) = Left(board[i + 1])

\* C39: the board is a chain, the right face of every tile being the left face
\* of the tile after it, and the spinner tile is on the board whenever the
\* board is not empty.
C39_BoardIsChain ==
    /\ Chained(gameState.board)
    /\ gameState.board # <<>> => Includes(gameState.board, gameState.spinnerTile)

\* four tiles are on the board, one of them not as it was in the set (its
\* faces were exchanged when it was placed), and the spinner is not at an end
C39_Witness ==
    /\ Len(gameState.board) >= 4
    /\ \E i \in 1..Len(gameState.board) : ~Includes(generateDominoes, gameState.board[i])
    /\ gameState.spinnerTile # gameState.board[1]
    /\ gameState.spinnerTile # gameState.board[Len(gameState.board)]

\* the step serves a setPlayerName in an active round and binds the socket to
\* seat p
BoundInRound(p) ==
    /\ Serves("setPlayerName")
    /\ gameState.gameInitialized
    /\ jugadores[p].socketId # cmd'.sock
    /\ jugadores'[p].socketId = cmd'.sock

\* C40: a socket bound to a seat while a round is active, by reclaiming the
\* seat by name or by taking a vacated seat under a new name, is sent the
\* seat's hand.
C40_BoundSeatGetsHand ==
    [][ \A p \in Seats :
          BoundInRound(p) => Includes(out', HandMsg(cmd'.sock, gameState'.hands[p])) ]_vars

\* a socket that reclaims its seat by name is sent the hand
C40_ReclaimGetsHand ==
    [][ \A p \in Seats :
          (BoundInRound(p) /\ jugadores'[p].assignedName = jugadores[p].assignedName)
             => Includes(out', HandMsg(cmd'.sock, gameState'.hands[p])) ]_vars

\* those of them placeTile accepts from the seat
AcceptedPlacements(gs, jug, p) ==
    SelectSeq(Placements(gs, p),
              LAMBDA m : placeTile(gs, jug, jug[p].socketId, p, m[1], m[2]).gs # gs)

\* some command of the seat in turn is accepted: a placement of a tile of its
\* hand, or a pass
TurnSeatCanAct ==
    LET p == gameState.currentTurn
    IN  \/ AcceptedPlacements(gameState, jugadores, p) # <<>>
        \/ passTurn(gameState, jugadores, p).gs # gameState

\* the seats from the one in turn on, in the order of play, that would pass
\* one after the other as the board stands
RECURSIVE PassesAhead(_, _)
PassesAhead(gs, n) ==
    IF n = 0 \/ PassRefused(gs, gs.currentTurn) THEN 0
    ELSE 1 + PassesAhead(nextTurn(gs), n - 1)

\* an accepted pass that leaves the round active
PassAccepted ==
    /\ Serves("passTurn")
    /\ gameState'.gameInitialized
    /\ gameState' # gameState

\* C38: with the four seats connected and the seat in turn always eventually
\* placing a tile when one is accepted and passing otherwise, the seat in turn
\* always has a command that is accepted, no more than 3 passes follow one
\* another (at most 3 seats in a row would pass, and every pass leaves one
\* fewer), and every round is settled in the end.
C38_RoundIsSettled ==
    /\ [](gameState.gameInitialized =>
             /\ TurnSeatCanAct
             /\ PassesAhead(gameState, NumSeats) < NumSeats)
    /\ [][ PassAccepted =>
             /\ gameState'.board = gameState.board
             /\ gameState'.hands = gameState.hands
             /\ PassesAhead(gameState', NumSeats) = PassesAhead(gameState, NumSeats) - 1 ]_vars
    /\ (gameState.gameInitialized ~> ~gameState.gameInitialized)

\* the third pass in a row has just been served: every seat but the one now
\* in turn holds nothing it can place, and the round goes on
C38_Witness ==
    /\ cmd.op = "passTurn"
    /\ gameState.gameInitialized
    /\ hasValidMove(gameState, gameState.currentTurn)
    /\ \A q \in Seats \ {gameState.currentTurn} : ~hasValidMove(gameState, q)

=============================================================================
